---- MODULE Spec2Model ----
(***************************************************************************)
(* Arrays-visualization spec validation and repair engine.                 *)
(*                                                                         *)
(* JSON documents are TLA+ records.  An optional key is a sequence of      *)
(* length 0 (key omitted) or 1 (key present).  Strings are TLA+ strings;   *)
(* array elements are integers; the index-valued fields that the schema    *)
(* declares z.number().int() hold a Num, a JSON number k or k + 0.5, so    *)
(* that a non-integer index is a value the validator can meet.             *)
(***************************************************************************)
EXTENDS Integers, Sequences, FiniteSets, TLC

VARIABLES
  normalizedInput,      \* the request: [algorithm, array]
  pc,                   \* where generateValidatedSpec is: "start", "awaitInitial",
                        \* "awaitRepair" (suspended in requestModelChat), "returned",
                        \* "threw"; "idle" when no run is modelled
  attempt,              \* the loop variable
  candidateSpec,        \* Some(text) once a candidate has arrived
  lastValidationError,  \* Some(error) or Absent (null)
  request,              \* the generation request in flight, or Absent
  result,               \* Some(spec) once returned
  thrown,               \* Some(error) once thrown
  genCalls,             \* history: number of requestModelChat calls issued
  verdicts,             \* history: for each candidate validated, whether it passed
  outstanding,          \* history: generation calls issued and not yet settled
  fallbackTried,        \* history: the deterministic fallback was built and validated
  probe,                \* validator runs: the document under validation
  verdict,              \* validator runs: Some(outcome) once validated
  runs,                 \* concurrent runs: for each run its request, position,
                        \* generation calls issued, responses received and outcome
  activations           \* concurrent runs: the local variables of each activation
                        \* of generateValidatedSpec

vars == <<normalizedInput, pc, attempt, candidateSpec, lastValidationError,
          request, result, thrown, genCalls, verdicts, outstanding,
          fallbackTried, probe, verdict, runs, activations>>

orchestratorVars == <<normalizedInput, pc, attempt, candidateSpec, lastValidationError,
                      request, result, thrown, genCalls, verdicts, outstanding,
                      fallbackTried>>

(***************************************************************************)
(* Program constants.                                                      *)
(***************************************************************************)
MAX_ARRAY_LENGTH == 32
MAX_TIMELINE_STEPS == 300
MAX_CODE_LINES == 40
MAX_TITLE_LENGTH == 140
MAX_COMPONENTS == 32
MAX_STACK_FRAMES == 128
MAX_STEP_EVENTS == 48
SPEC_MAX_REPAIR_ATTEMPTS == 3

ARRAYS_ALGORITHMS == <<"linear-search", "binary-search", "quicksort", "mergesort">>

RECURSIVE_ALGORITHMS == {"quicksort", "mergesort"}

RECURSION_PHASES ==
  <<"enter", "base", "divide", "recurse-left", "recurse-right", "combine", "return">>

REGISTRY_COMPONENT_TYPES ==
  <<"ArrayView", "BarArrayView", "Pointer", "RangeHighlight", "SwapAnimation",
    "CompareAnimation", "CaptionCallout", "CodeBlock", "TimelineStepper",
    "StackView", "PartitionView", "MergeView">>

(***************************************************************************)
(* Generic helpers.                                                        *)
(***************************************************************************)
Absent == <<>>
Some(v) == <<v>>
Has(opt) == Len(opt) > 0
Get(opt) == opt[1]

Range(seq) == {seq[k] : k \in 1..Len(seq)}

\* Concatenation of a sequence of sequences (halving keeps the evaluation shallow).
RECURSIVE Flatten(_)
Flatten(seqs) ==
  IF Len(seqs) = 0 THEN <<>>
  ELSE IF Len(seqs) = 1 THEN seqs[1]
  ELSE LET mid == Len(seqs) \div 2
       IN Flatten(SubSeq(seqs, 1, mid)) \o Flatten(SubSeq(seqs, mid + 1, Len(seqs)))

\* String.prototype.includes
Includes(s, t) ==
  \E k \in 1..(Len(s) - Len(t) + 1) : SubSeq(s, k, k + Len(t) - 1) = t

\* Array.prototype.join over strings
RECURSIVE JoinStrings(_, _)
JoinStrings(strs, sep) ==
  IF Len(strs) = 0 THEN ""
  ELSE IF Len(strs) = 1 THEN strs[1]
  ELSE LET mid == Len(strs) \div 2
       IN JoinStrings(SubSeq(strs, 1, mid), sep) \o sep
            \o JoinStrings(SubSeq(strs, mid + 1, Len(strs)), sep)

\* A JSON number in an index field: whole + (half ? 0.5 : 0).
Num(k) == [whole |-> k, half |-> FALSE]
Half(k) == [whole |-> k, half |-> TRUE]
IsInt(n) == ~n.half
NumLt(n, k) == n.whole < k                  \* n < k for an integer k
NumGe(n, k) == n.whole >= k                 \* n >= k for an integer k
NumGt(a, b) == \/ a.whole > b.whole
               \/ a.whole = b.whole /\ a.half /\ ~b.half
NumText(n) ==
  IF ~n.half THEN ToString(n.whole)
  ELSE IF n.whole >= 0 THEN ToString(n.whole) \o ".5"
  ELSE "-" \o ToString(-(n.whole + 1)) \o ".5"

StepPath(index, rest) ==
  "steps." \o ToString(index) \o (IF rest = "" THEN "" ELSE "." \o rest)

(***************************************************************************)
(* Schema: per-step structural checks.  ZIssue adds to an issue whether it *)
(* aborts the parse of the enclosing objects (zod: an INVALID child) or    *)
(* only marks them dirty (a failed length, range or integer check): the    *)
(* refinements of an aborted object do not run.                            *)
(***************************************************************************)
ZIssue(path, message, fatal) == [path |-> path, message |-> message, fatal |-> fatal]

StringMin1(path, str) ==
  IF Len(str) < 1
  THEN <<ZIssue(path, "String must contain at least 1 character(s)", FALSE)>>
  ELSE <<>>

IntCheck(path, n) ==
  IF IsInt(n) THEN <<>>
  ELSE <<ZIssue(path, "Expected integer, received float", FALSE)>>

ArrayMax(path, arr, max) ==
  IF Len(arr) > max
  THEN <<ZIssue(path, "Array must contain at most " \o ToString(max) \o " element(s)", FALSE)>>
  ELSE <<>>

ArrayMin1(path, arr) ==
  IF Len(arr) < 1
  THEN <<ZIssue(path, "Array must contain at least 1 element(s)", FALSE)>>
  ELSE <<>>

\* JSON-level defects the records cannot hold: a null or wrongly typed or missing
\* value (invalid_type, aborting) and a key the strict objects do not know
\* (unrecognized_keys, dirty).  step is the index of the step holding it, or -1.
Fault(code, path, step) == [code |-> code, path |-> path, step |-> step]

FaultIssues(faults, step, code) ==
  LET here == {f \in faults : f.step = step /\ f.code = code}
      pick[S \in SUBSET here] ==
        IF S = {} THEN <<>>
        ELSE LET f == CHOOSE g \in S : \A h \in S : Len(g.path) <= Len(h.path)
             IN <<ZIssue(f.path,
                         IF code = "invalid_type" THEN "Expected number, received null"
                         ELSE "Unrecognized key(s) in object: 'extra'",
                         code = "invalid_type")>> \o pick[S \ {f}]
  IN pick[here]

numberArraySchema(path, arr) ==
  ArrayMin1(path, arr) \o ArrayMax(path, arr, MAX_ARRAY_LENGTH)

rangeSchema(path, rng) ==
  IntCheck(path \o ".l", rng.l) \o IntCheck(path \o ".r", rng.r)

stepEventSchema(path, event) ==
  IF event.type \notin {"swap", "compare"}
  THEN <<ZIssue(path \o ".type",
                "Invalid discriminator value. Expected 'swap' | 'compare'", TRUE)>>
  ELSE IntCheck(path \o ".i", event.i) \o IntCheck(path \o ".j", event.j)
       \o (IF event.type = "compare" /\ Has(event.outcome)
              /\ Get(event.outcome) \notin {"lt", "eq", "gt"}
           THEN <<ZIssue(path \o ".outcome",
                         "Invalid enum value. Expected 'lt' | 'eq' | 'gt'", TRUE)>>
           ELSE IF event.type = "swap" /\ Has(event.outcome)
           THEN <<ZIssue(path, "Unrecognized key(s) in object: 'outcome'", FALSE)>>
           ELSE <<>>)

recursionSchema(path, rec) ==
  StringMin1(path \o ".callId", rec.callId)
  \o (IF Has(rec.parentCallId)
      THEN StringMin1(path \o ".parentCallId", Get(rec.parentCallId)) ELSE <<>>)
  \o StringMin1(path \o ".fn", rec.fn)
  \o (IF rec.depth < 0
      THEN <<ZIssue(path \o ".depth", "Number must be greater than or equal to 0", FALSE)>>
      ELSE <<>>)
  \o (IF rec.phase \notin Range(RECURSION_PHASES)
      THEN <<ZIssue(path \o ".phase", "Invalid enum value.", TRUE)>>
      ELSE <<>>)
  \o StringMin1(path \o ".args", rec.args)

stepStateSchema(path, state) ==
  numberArraySchema(path \o ".array", state.array)
  \o (IF Has(state.pointers)
      THEN Flatten([k \in 1..Len(Get(state.pointers)) |->
             IntCheck(path \o ".pointers." \o Get(state.pointers)[k].name,
                      Get(state.pointers)[k].index)])
      ELSE <<>>)
  \o (IF Has(state.range) THEN rangeSchema(path \o ".range", Get(state.range)) ELSE <<>>)
  \o (IF Has(state.stack)
      THEN ArrayMax(path \o ".stack", Get(state.stack), MAX_STACK_FRAMES) ELSE <<>>)
  \o (IF Has(state.recursion)
      THEN recursionSchema(path \o ".recursion", Get(state.recursion)) ELSE <<>>)
  \o (IF Has(state.partition)
      THEN IntCheck(path \o ".partition.pivotIndex", Get(state.partition).pivotIndex)
      ELSE <<>>)
  \o (IF Has(state.merge)
      THEN ArrayMax(path \o ".merge.left", Get(state.merge).left, MAX_ARRAY_LENGTH)
           \o ArrayMax(path \o ".merge.right", Get(state.merge).right, MAX_ARRAY_LENGTH)
           \o ArrayMax(path \o ".merge.merged", Get(state.merge).merged, MAX_ARRAY_LENGTH)
           \o (IF Has(Get(state.merge).writeRange)
               THEN rangeSchema(path \o ".merge.writeRange", Get(Get(state.merge).writeRange))
               ELSE <<>>)
      ELSE <<>>)

\* The object part of stepSchema: the issues of the step's own fields.
stepObjectSchema(step, index, faults) ==
  FaultIssues(faults, index, "invalid_type")
  \o StringMin1(StepPath(index, "id"), step.id)
  \o StringMin1(StepPath(index, "caption"), step.caption)
  \o (IF step.activeCodeLine < 1
      THEN <<ZIssue(StepPath(index, "activeCodeLine"),
                    "Number must be greater than or equal to 1", FALSE)>>
      ELSE <<>>)
  \o stepStateSchema(StepPath(index, "state"), step.state)
  \o (IF Has(step.events)
      THEN ArrayMax(StepPath(index, "events"), Get(step.events), MAX_STEP_EVENTS)
           \o Flatten([k \in 1..Len(Get(step.events)) |->
                 stepEventSchema(StepPath(index, "events." \o ToString(k - 1)),
                                 Get(step.events)[k])])
      ELSE <<>>)
  \o FaultIssues(faults, index, "unrecognized_keys")

\* range / writeRange test of the step refinement
RangeInvalid(rng, arrayLength) ==
  \/ NumLt(rng.l, 0) \/ NumLt(rng.r, 0)
  \/ NumGe(rng.l, arrayLength) \/ NumGe(rng.r, arrayLength)
  \/ NumGt(rng.l, rng.r)

\* A refinement that checks the lower bound only.
IndexBelowZero(index, arrayLength) == NumLt(index, 0)

IndexOutOfBounds(index, arrayLength) ==
  NumLt(index, 0) \/ NumGe(index, arrayLength)

\* stepSchema's superRefine: index bounds against this step's array.
stepRefine(step, index) ==
  LET arrayLength == Len(step.state.array)
      lenText == ToString(arrayLength)
  IN
  (IF Has(step.state.pointers)
   THEN Flatten([k \in 1..Len(Get(step.state.pointers)) |->
          LET ptr == Get(step.state.pointers)[k] IN
          IF IndexOutOfBounds(ptr.index, arrayLength)
          THEN <<ZIssue(StepPath(index, "state.pointers." \o ptr.name),
                        "Pointer index " \o NumText(ptr.index)
                          \o " is out of bounds for array length " \o lenText \o ".",
                        FALSE)>>
          ELSE <<>>])
   ELSE <<>>)
  \o (IF Has(step.state.range) /\ RangeInvalid(Get(step.state.range), arrayLength)
      THEN <<ZIssue(StepPath(index, "state.range"),
                    "Range [" \o NumText(Get(step.state.range).l) \o ", "
                      \o NumText(Get(step.state.range).r)
                      \o "] is invalid for array length " \o lenText \o ".", FALSE)>>
      ELSE <<>>)
  \o (IF Has(step.state.partition)
         /\ IndexOutOfBounds(Get(step.state.partition).pivotIndex, arrayLength)
      THEN <<ZIssue(StepPath(index, "state.partition.pivotIndex"),
                    "pivotIndex " \o NumText(Get(step.state.partition).pivotIndex)
                      \o " is out of bounds for array length " \o lenText \o ".", FALSE)>>
      ELSE <<>>)
  \o (IF Has(step.state.merge)
      THEN LET m == Get(step.state.merge) IN
           (IF Len(m.merged) > Len(m.left) + Len(m.right)
            THEN <<ZIssue(StepPath(index, "state.merge.merged"),
                          "Merged buffer cannot contain more elements than left + right.",
                          FALSE)>>
            ELSE <<>>)
           \o (IF Has(m.writeRange) /\ RangeInvalid(Get(m.writeRange), arrayLength)
               THEN <<ZIssue(StepPath(index, "state.merge.writeRange"),
                             "writeRange [" \o NumText(Get(m.writeRange).l) \o ", "
                               \o NumText(Get(m.writeRange).r)
                               \o "] is invalid for array length " \o lenText \o ".",
                             FALSE)>>
               ELSE <<>>)
      ELSE <<>>)
  \o (IF Has(step.events)
      THEN Flatten([k \in 1..Len(Get(step.events)) |->
             LET event == Get(step.events)[k] IN
             IF \/ NumLt(event.i, 0) \/ NumLt(event.j, 0)
                \/ NumGe(event.i, arrayLength) \/ NumGe(event.j, arrayLength)
             THEN <<ZIssue(StepPath(index, "events." \o ToString(k - 1)),
                           "Event indices (" \o NumText(event.i) \o ", "
                             \o NumText(event.j) \o ") are invalid for array length "
                             \o lenText \o ".", FALSE)>>
             ELSE <<>>])
      ELSE <<>>)

HasFatal(issues) == \E k \in 1..Len(issues) : issues[k].fatal

\* stepSchema: the object, then its refinement unless the object aborted.
stepSchema(step, index, faults) ==
  LET base == stepObjectSchema(step, index, faults)
  IN IF HasFatal(base) THEN base ELSE base \o stepRefine(step, index)


(***************************************************************************)
(* Schema: the document.                                                   *)
(***************************************************************************)
isRecursiveAlgorithm(algorithm) == algorithm \in RECURSIVE_ALGORITHMS

hasComponentType(components, type) ==
  \E k \in 1..Len(components) : components[k].type = type

IsPrimitiveProp(kind) == kind \in {"string", "number", "boolean"}

componentSchema(path, component) ==
  IF component.type \notin Range(REGISTRY_COMPONENT_TYPES)
  THEN <<ZIssue(path \o ".type", "Invalid discriminator value.", TRUE)>>
  ELSE StringMin1(path \o ".id", component.id)
       \o (IF Has(component.props)
           THEN Flatten([k \in 1..Len(Get(component.props)) |->
                  IF IsPrimitiveProp(Get(component.props)[k].kind) THEN <<>>
                  ELSE <<ZIssue(path \o ".props." \o Get(component.props)[k].key,
                                "Props values must be string, number, or boolean. Put array/code/state data in steps instead.",
                                FALSE)>>])
           ELSE <<>>)

\* String.prototype.trim, then toLowerCase on the letters of "recursion"
IsSpace(ch) == ch \in {" ", "\t", "\n", "\r"}

RECURSIVE TrimStart(_)
TrimStart(str) ==
  IF Len(str) > 0 /\ IsSpace(SubSeq(str, 1, 1))
  THEN TrimStart(SubSeq(str, 2, Len(str))) ELSE str

RECURSIVE TrimEnd(_)
TrimEnd(str) ==
  IF Len(str) > 0 /\ IsSpace(SubSeq(str, Len(str), Len(str)))
  THEN TrimEnd(SubSeq(str, 1, Len(str) - 1)) ELSE str

Trim(str) == TrimEnd(TrimStart(str))

LowerChar(ch) ==
  CASE ch = "R" -> "r" [] ch = "E" -> "e" [] ch = "C" -> "c" [] ch = "U" -> "u"
    [] ch = "S" -> "s" [] ch = "I" -> "i" [] ch = "O" -> "o" [] ch = "N" -> "n"
    [] OTHER -> ch

RECURSIVE ToLowerCase(_)
ToLowerCase(str) ==
  IF Len(str) = 0 THEN ""
  ELSE LowerChar(SubSeq(str, 1, 1)) \o ToLowerCase(SubSeq(str, 2, Len(str)))

IsGenericCaption(caption) ==
  Len(Trim(caption)) = 9 /\ ToLowerCase(Trim(caption)) = "recursion"

findPhaseIndex(frames, phase) ==
  IF \E k \in 1..Len(frames) : frames[k].phase = phase
  THEN (CHOOSE k \in 1..Len(frames) :
          /\ frames[k].phase = phase
          /\ \A m \in 1..(k - 1) : frames[m].phase # phase) - 1
  ELSE -1

requiredPhases(algorithm) ==
  IF algorithm = "mergesort"
  THEN <<"enter", "divide", "recurse-left", "recurse-right", "combine", "return">>
  ELSE <<"enter", "divide", "recurse-left", "recurse-right", "return">>

\* The forEach over requiredPhases: acc = [lastIndex, issues]
RECURSIVE OrderedPhases(_, _, _, _, _)
OrderedPhases(algorithm, callId, frames, phases, lastIndex) ==
  IF phases = <<>> THEN <<>>
  ELSE LET phase == Head(phases)
           phaseIndex == findPhaseIndex(frames, phase)
       IN IF phaseIndex < 0
          THEN <<"Call " \o callId \o " is missing required phase \"" \o phase \o "\".">>
               \o OrderedPhases(algorithm, callId, frames, Tail(phases), lastIndex)
          ELSE IF phaseIndex < lastIndex
          THEN <<"Call " \o callId \o " phase \"" \o phase
                   \o "\" appears out of order for " \o algorithm \o ".">>
               \o OrderedPhases(algorithm, callId, frames, Tail(phases), lastIndex)
          ELSE OrderedPhases(algorithm, callId, frames, Tail(phases), phaseIndex)

\* A lifecycle check that takes any group with a base phase as it comes.
validateCallLifecycleAnyBase(algorithm, callId, frames) ==
  IF Len(frames) = 0 THEN <<>>
  ELSE
    LET hasPhase(p) == \E k \in 1..Len(frames) : frames[k].phase = p
    IN (IF frames[1].phase # "enter"
        THEN <<"Call " \o callId \o " must begin with phase \"enter\".">> ELSE <<>>)
       \o (IF ~hasPhase("return")
           THEN <<"Call " \o callId \o " must include phase \"return\".">> ELSE <<>>)
       \o (IF hasPhase("base") THEN <<>>
           ELSE OrderedPhases(algorithm, callId, frames, requiredPhases(algorithm), -1))

validateCallLifecycle(algorithm, callId, frames) ==
  IF Len(frames) = 0 THEN <<>>
  ELSE
    LET hasPhase(p) == \E k \in 1..Len(frames) : frames[k].phase = p
        hasBase == hasPhase("base")
        hasReturn == hasPhase("return")
        beginIssue ==
          IF frames[1].phase # "enter"
          THEN <<"Call " \o callId \o " must begin with phase \"enter\".">> ELSE <<>>
        returnIssue ==
          IF ~hasReturn
          THEN <<"Call " \o callId \o " must include phase \"return\".">> ELSE <<>>
        baseIndex == findPhaseIndex(frames, "base")
        returnIndex == findPhaseIndex(frames, "return")
        hasRecursivePhase ==
          hasPhase("divide") \/ hasPhase("recurse-left")
            \/ hasPhase("recurse-right") \/ hasPhase("combine")
    IN beginIssue \o returnIssue
       \o (IF hasBase
           THEN (IF baseIndex < 0 \/ returnIndex < 0 \/ baseIndex > returnIndex
                 THEN <<"Call " \o callId \o " base lifecycle must be enter -> base -> return.">>
                 ELSE <<>>)
                \o (IF hasRecursivePhase
                    THEN <<"Call " \o callId
                             \o " cannot mix base-case and divide/recurse/combine phases.">>
                    ELSE <<>>)
           ELSE OrderedPhases(algorithm, callId, frames, requiredPhases(algorithm), -1))


\* The steps that carry state.recursion, as RecursionFrame records in timeline order.
RecursionFrames(steps) ==
  LET frameAt(k) ==
        IF Has(steps[k].state.recursion)
        THEN <<[stepIndex |-> k - 1,
                callId |-> Get(steps[k].state.recursion).callId,
                fn |-> Get(steps[k].state.recursion).fn,
                depth |-> Get(steps[k].state.recursion).depth,
                phase |-> Get(steps[k].state.recursion).phase]>>
        ELSE <<>>
  IN Flatten([k \in 1..Len(steps) |-> frameAt(k)])

\* recursionByCallId: the Map's keys in insertion order, and one key's frames.
CallIdsInOrder(frames) ==
  LET firstAt(k) ==
        IF \A m \in 1..(k - 1) : frames[m].callId # frames[k].callId
        THEN <<frames[k].callId>> ELSE <<>>
  IN Flatten([k \in 1..Len(frames) |-> firstAt(k)])

FramesOf(frames, callId) ==
  LET keep(frame) == frame.callId = callId IN SelectSeq(frames, keep)

\* A refinement that asks nothing of a step.
recursiveStepUnchecked(algorithm, step, index) == <<>>

\* Lines 423-497 of the refinement: the checks made on each step of a recursive spec.
recursiveStepRefine(algorithm, step, index) ==
  LET stack == step.state.stack
      stackLength == IF Has(stack) THEN Len(Get(stack)) ELSE 0
  IN
  (IF IsGenericCaption(step.caption)
   THEN <<ZIssue(StepPath(index, "caption"),
                 "Generic recursion caption \"Recursion\" is not allowed.", FALSE)>>
   ELSE <<>>)
  \o (IF ~Has(stack) \/ stackLength = 0
      THEN <<ZIssue(StepPath(index, "state.stack"),
                    "Recursive algorithms require a non-empty state.stack on every step.",
                    FALSE)>>
      ELSE <<>>)
  \o (IF ~Has(step.state.recursion)
      THEN <<ZIssue(StepPath(index, "state.recursion"),
                    "Recursive algorithms require state.recursion on every step.", FALSE)>>
      ELSE
        LET recursion == Get(step.state.recursion) IN
        (IF recursion.depth # stackLength - 1
         THEN <<ZIssue(StepPath(index, "state.recursion.depth"),
                       "state.recursion.depth must equal state.stack.length - 1.", FALSE)>>
         ELSE <<>>)
        \o (IF algorithm = "quicksort" /\ recursion.phase = "divide"
               /\ ~Has(step.state.partition)
            THEN <<ZIssue(StepPath(index, "state.partition"),
                          "Quicksort divide phases must include state.partition for the active call.",
                          FALSE)>>
            ELSE <<>>)
        \o (IF algorithm = "mergesort" /\ recursion.phase = "combine"
               /\ ~Has(step.state.merge)
            THEN <<ZIssue(StepPath(index, "state.merge"),
                          "Mergesort combine phases must include state.merge for the active call.",
                          FALSE)>>
            ELSE <<>>))

\* A refinement without the depth-delta rule.
depthDeltaUnchecked(steps, index) == <<>>

\* Lines 511-558: the depth-delta rule between steps index-1 and index (0-based).
depthDeltaRefine(steps, index) ==
  LET prevOpt == steps[index].state.recursion
      currOpt == steps[index + 1].state.recursion
  IN IF ~Has(prevOpt) \/ ~Has(currOpt) THEN <<>>
     ELSE
       LET previous == Get(prevOpt)
           current == Get(currOpt)
           depthDelta == current.depth - previous.depth
       IN IF depthDelta < -1 \/ depthDelta > 1
          THEN <<ZIssue(StepPath(index, "state.recursion.depth"),
                        "Recursion depth jump between adjacent steps must be -1, 0, or +1.",
                        FALSE)>>
          ELSE
            (IF depthDelta = 1 /\ previous.phase # "recurse-left"
                /\ previous.phase # "recurse-right"
             THEN <<ZIssue(StepPath(index - 1, "state.recursion.phase"),
                           "Depth increase requires previous phase to be \"recurse-left\" or \"recurse-right\".",
                           FALSE)>>
             ELSE <<>>)
            \o (IF depthDelta = 1 /\ current.phase # "enter"
                THEN <<ZIssue(StepPath(index, "state.recursion.phase"),
                              "Depth increase requires current phase to be \"enter\".", FALSE)>>
                ELSE <<>>)
            \o (IF depthDelta = -1 /\ previous.phase # "return"
                THEN <<ZIssue(StepPath(index - 1, "state.recursion.phase"),
                              "Depth decrease requires previous phase to be \"return\".", FALSE)>>
                ELSE <<>>)

\* The recursion rules without those on the first and the last step.
recursionRefineWithoutEnds(spec) ==
  LET steps == spec.steps
      n == Len(steps)
      frames == RecursionFrames(steps)
      callIds == CallIdsInOrder(frames)
  IN
  (IF ~hasComponentType(spec.scene.components, "StackView")
   THEN <<ZIssue("scene.components",
                 "Recursive algorithms must include StackView in scene.components.", FALSE)>>
   ELSE <<>>)
  \o Flatten([k \in 1..n |-> recursiveStepRefine(spec.algorithm, steps[k], k - 1)])
  \o Flatten([index \in 1..(n - 1) |-> depthDeltaRefine(steps, index)])
  \o Flatten([c \in 1..Len(callIds) |->
        LET callFrames == FramesOf(frames, callIds[c])
            callIssues == validateCallLifecycle(spec.algorithm, callIds[c], callFrames)
        IN [m \in 1..Len(callIssues) |->
              ZIssue(StepPath(callFrames[1].stepIndex, "state.recursion"),
                     callIssues[m], FALSE)]])

\* Lines 407-581: the recursion rules of the document refinement.
recursionRefine(spec) ==
  LET steps == spec.steps
      n == Len(steps)
      frames == RecursionFrames(steps)
      callIds == CallIdsInOrder(frames)
  IN
  (IF ~hasComponentType(spec.scene.components, "StackView")
   THEN <<ZIssue("scene.components",
                 "Recursive algorithms must include StackView in scene.components.", FALSE)>>
   ELSE <<>>)
  \o Flatten([k \in 1..n |-> recursiveStepRefine(spec.algorithm, steps[k], k - 1)])
  \o (IF n > 0 /\ Has(steps[1].state.recursion)
         /\ (Get(steps[1].state.recursion).depth # 0
             \/ Get(steps[1].state.recursion).phase # "enter")
      THEN <<ZIssue(StepPath(0, "state.recursion"),
                    "First recursive step must start at depth 0 with phase \"enter\".", FALSE)>>
      ELSE <<>>)
  \o Flatten([index \in 1..(n - 1) |-> depthDeltaRefine(steps, index)])
  \o (IF n > 0 /\ Has(steps[n].state.recursion)
         /\ (Get(steps[n].state.recursion).depth # 0
             \/ Get(steps[n].state.recursion).phase # "return")
      THEN <<ZIssue(StepPath(n - 1, "state.recursion"),
                    "Last recursive step must end at depth 0 with phase \"return\".", FALSE)>>
      ELSE <<>>)
  \o Flatten([c \in 1..Len(callIds) |->
        LET callFrames == FramesOf(frames, callIds[c])
            callIssues == validateCallLifecycle(spec.algorithm, callIds[c], callFrames)
        IN [m \in 1..Len(callIssues) |->
              ZIssue(StepPath(callFrames[1].stepIndex, "state.recursion"),
                     callIssues[m], FALSE)]])

\* Lines 394-405: activeCodeLine against code.lines.
activeCodeLineRefine(spec) ==
  LET lineCount == Len(spec.code.lines) IN
  Flatten([k \in 1..Len(spec.steps) |->
    IF spec.steps[k].activeCodeLine < 1 \/ spec.steps[k].activeCodeLine > lineCount
    THEN <<ZIssue(StepPath(k - 1, "activeCodeLine"),
                  "activeCodeLine " \o ToString(spec.steps[k].activeCodeLine)
                    \o " is outside code lines range 1.." \o ToString(lineCount) \o ".",
                  FALSE)>>
    ELSE <<>>])

specRefine(spec) ==
  activeCodeLineRefine(spec)
  \o (IF ~isRecursiveAlgorithm(spec.algorithm) THEN <<>> ELSE recursionRefine(spec))

\* The object part of arraysVizSpecSchema, keys in schema order.
specObjectSchema(spec) ==
  FaultIssues(spec.faults, -1, "invalid_type")
  \o (IF spec.version # "1.0"
      THEN <<ZIssue("version", "Invalid literal value, expected \"1.0\"", TRUE)>> ELSE <<>>)
  \o (IF spec.algorithm \notin Range(ARRAYS_ALGORITHMS)
      THEN <<ZIssue("algorithm", "Invalid enum value.", TRUE)>> ELSE <<>>)
  \o StringMin1("title", spec.title)
  \o (IF Len(spec.title) > MAX_TITLE_LENGTH
      THEN <<ZIssue("title", "String must contain at most "
                      \o ToString(MAX_TITLE_LENGTH) \o " character(s)", FALSE)>>
      ELSE <<>>)
  \o ArrayMin1("code.lines", spec.code.lines)
  \o ArrayMax("code.lines", spec.code.lines, MAX_CODE_LINES)
  \o Flatten([k \in 1..Len(spec.code.lines) |->
        StringMin1("code.lines." \o ToString(k - 1), spec.code.lines[k])])
  \o ArrayMin1("scene.components", spec.scene.components)
  \o ArrayMax("scene.components", spec.scene.components, MAX_COMPONENTS)
  \o Flatten([k \in 1..Len(spec.scene.components) |->
        componentSchema("scene.components." \o ToString(k - 1), spec.scene.components[k])])
  \o ArrayMin1("steps", spec.steps)
  \o ArrayMax("steps", spec.steps, MAX_TIMELINE_STEPS)
  \o Flatten([k \in 1..Len(spec.steps) |-> stepSchema(spec.steps[k], k - 1, spec.faults)])
  \o FaultIssues(spec.faults, -1, "unrecognized_keys")

\* arraysVizSpecSchema.safeParse: the issues, empty when the document is accepted.
arraysVizSpecSchema(spec) ==
  LET base == specObjectSchema(spec)
  IN IF HasFatal(base) THEN base ELSE base \o specRefine(spec)

formatZodIssues(issues) ==
  JoinStrings([k \in 1..Len(issues) |->
                 (IF issues[k].path = "" THEN "root" ELSE issues[k].path)
                   \o ": " \o issues[k].message], "; ")


(***************************************************************************)
(* Text and parsing.  A text is what a model returns or JSON.stringify     *)
(* writes: its markdown fence ("none", "both", "open") and its body, a     *)
(* JSON document (Some(doc)) or something JSON.parse rejects (Absent).     *)
(***************************************************************************)
Text(fence, body) == [fence |-> fence, body |-> body]

stripMarkdownFences(raw) == [raw EXCEPT !.fence = "none"]

\* JSON.parse: Some(document), or Absent when it throws.
JsonParse(text) == IF text.fence # "none" THEN Absent ELSE text.body

\* A serializer that loses the timeline.
JsonStringifyWithoutSteps(doc) == Text("none", Some([doc EXCEPT !.steps = <<>>]))

JsonStringify(doc) == Text("none", Some(doc))

ArraysSpecValidationError(message, details) ==
  [name |-> "ArraysSpecValidationError", message |-> message, details |-> details]

\* A parser that returns a document other than the one it was given.
OkRetitled(spec) ==
  [ok |-> TRUE, spec |-> Some([spec EXCEPT !.title = "Untitled"]), error |-> Absent]

Ok(spec) == [ok |-> TRUE, spec |-> Some(spec), error |-> Absent]
Err(error) == [ok |-> FALSE, spec |-> Absent, error |-> Some(error)]

\* A parser that lets every parsed document through.
SchemaOutcomeLenient(parsedJson, issues) == Ok(parsedJson)

\* Lines 626-635: what safeParse's issues make of the parsed document.
SchemaOutcome(parsedJson, issues) ==
  IF Len(issues) > 0
  THEN Err(ArraysSpecValidationError("Visualization spec failed validation.",
                                     Some(formatZodIssues(issues))))
  ELSE Ok(parsedJson)

\* Lines 616-635: Some(document) JSON.parse returned, or Absent when it threw.
ParsedOutcome(parsedJson) ==
  IF ~Has(parsedJson)
  THEN Err(ArraysSpecValidationError("Visualization spec is not valid JSON.",
                                     Some("Model output could not be parsed as JSON.")))
  ELSE SchemaOutcome(Get(parsedJson), arraysVizSpecSchema(Get(parsedJson)))

parseAndValidateArraysSpec(raw) == ParsedOutcome(JsonParse(stripMarkdownFences(raw)))

\* An orchestrator that does not compare algorithms.
AlgorithmUnchecked(spec, input) == Absent

\* Absent when the algorithms agree, else the error it throws.
validateAlgorithmMatch(spec, input) ==
  IF spec.algorithm # input.algorithm
  THEN Some(ArraysSpecValidationError("Visualization spec failed validation.",
              Some("Expected algorithm " \o input.algorithm \o " but received "
                     \o spec.algorithm \o ".")))
  ELSE Absent

\* Line 938: validateAlgorithmMatch throws, or the parsed spec stands.
MatchOutcome(parsed, mismatch) == IF Has(mismatch) THEN Err(Get(mismatch)) ELSE parsed

\* Lines 937-938, from the outcome of parseAndValidateArraysSpec.
CheckedOutcome(parsed, input) ==
  IF ~parsed.ok THEN parsed
  ELSE MatchOutcome(parsed, validateAlgorithmMatch(Get(parsed.spec), input))

\* The try block of the loop (lines 936-939) and of the fallback (973-977).
ValidateCandidate(raw, input) == CheckedOutcome(parseAndValidateArraysSpec(raw), input)

\* -1 stands for null.
getCandidateStepCount(candidate) ==
  LET parsed == JsonParse(stripMarkdownFences(candidate))
  IN IF ~Has(parsed) THEN -1
     ELSE IF \E f \in Get(parsed).faults : f.path = "steps" /\ f.code = "invalid_type"
     THEN -1
     ELSE Len(Get(parsed).steps)


(***************************************************************************)
(* Repair prompts.                                                         *)
(***************************************************************************)
buildRepairHint(validationDetails) ==
  IF ~Has(validationDetails) \/ Get(validationDetails) = "" THEN ""
  ELSE
    LET d == Get(validationDetails)
        when(cond, hint) == IF cond THEN <<hint>> ELSE <<>>
    IN JoinStrings(
         when(Includes(d, "scene.components") /\ Includes(d, ".props"),
              "Remove scene.components[*].props keys that contain arrays or objects (for example props.array or props.code). Keep scene.components mostly as id + type.")
         \o when(Includes(d, "events") /\ Includes(d, ".j"),
              "Every event must include integer i and j. For search target comparisons, set j equal to i.")
         \o when(Includes(d, "state.merge"),
              "For mergesort merge phases, include state.merge with left, right, merged, and optional writeRange.")
         \o when(Includes(d, "scene.components") /\ Includes(d, "MergeView"),
              "When algorithm is mergesort, include one MergeView component in scene.components.")
         \o when(Includes(d, "scene.components") /\ Includes(d, "StackView"),
              "For quicksort and mergesort, include one StackView in scene.components.")
         \o when(Includes(d, "state.recursion"),
              "For quicksort and mergesort, include state.recursion on every step with callId, fn, depth, phase, and args.")
         \o when(Includes(d, "state.stack"),
              "For quicksort and mergesort, include a non-empty state.stack on every step.")
         \o when(Includes(d, "depth jump"),
              "Recursive depth can only change by -1, 0, or +1 between adjacent steps.")
         \o when(Includes(d, "caption") /\ Includes(d, "Recursion"),
              "Do not use generic caption \"Recursion\"; use specific call-phase captions.")
         \o when(Includes(d, "phase \"divide\"") /\ Includes(d, "partition"),
              "Quicksort divide phases must include state.partition.")
         \o when(Includes(d, "Quicksort divide phases must include state.partition"),
              "For quicksort, every divide phase must include state.partition.")
         \o when(Includes(d, "phase \"combine\"") /\ Includes(d, "merge"),
              "Mergesort combine phases must include state.merge.")
         \o when(\/ Includes(d, "is missing required phase")
                 \/ Includes(d, "must include phase \"return\"")
                 \/ Includes(d, "must begin with phase \"enter\""),
              "Give every recursive invocation a unique callId and keep a full phase lifecycle per callId in order (quicksort: enter -> base -> return OR enter -> divide -> recurse-left -> recurse-right -> return).")
         \o when(Includes(d, "Last recursive step must end at depth 0 with phase \"return\"."),
              "Ensure the final step is the root call at depth 0 with recursion.phase set to \"return\".")
         \o when(Includes(d, "First recursive step must start at depth 0 with phase \"enter\"."),
              "Ensure the first step is the root call at depth 0 with recursion.phase set to \"enter\"."),
         " ")

\* The request for the first candidate (lines 918-931).
buildVisualizationPrompts(input) ==
  [kind |-> "initial", invalidSpec |-> Absent, validationError |-> "", repairHint |-> ""]

\* The repair request: what of the failed attempt the prompt text carries.
buildSpecRepairPrompts(input, invalidSpec, validationError, repairHint) ==
  [kind |-> "repair", invalidSpec |-> Some(invalidSpec),
   validationError |-> validationError, repairHint |-> repairHint]

\* A repair request that quotes the error's message, not its details.
RepairRequestFromMessage(input, candidate, error) ==
  buildSpecRepairPrompts(input, candidate, error.message, buildRepairHint(error.details))

\* Lines 951-957: the repair request for a failed candidate and the error caught.
RepairRequestFor(input, candidate, error) ==
  buildSpecRepairPrompts(input, candidate,
                         IF Has(error.details) THEN Get(error.details) ELSE error.message,
                         buildRepairHint(error.details))


(***************************************************************************)
(* Deterministic quicksort tracer.  Arrays are 0-based in the source:      *)
(* element i of an array is values[i + 1] here.                            *)
(***************************************************************************)
getQuicksortCodeLineForPhase(phase) ==
  CASE phase = "enter" -> 1
    [] phase = "base" -> 2
    [] phase = "divide" -> 3
    [] phase = "recurse-left" -> 4
    [] phase = "recurse-right" -> 5
    [] phase = "return" -> 6
    [] OTHER -> 1

\* A range that is written down whatever lo and hi are.
createRangeUnchecked(arrayLength, lo, hi) == Some([l |-> Num(lo), r |-> Num(hi)])

createValidRange(arrayLength, lo, hi) ==
  IF lo < 0 \/ hi < 0 \/ lo >= arrayLength \/ hi >= arrayLength \/ lo > hi
  THEN Absent
  ELSE Some([l |-> Num(lo), r |-> Num(hi)])

createValidPointers(arrayLength, lo, hi) ==
  LET pointers ==
        (IF lo >= 0 /\ lo < arrayLength THEN <<[name |-> "lo", index |-> Num(lo)]>> ELSE <<>>)
        \o (IF hi >= 0 /\ hi < arrayLength THEN <<[name |-> "hi", index |-> Num(hi)]>> ELSE <<>>)
  IN IF Len(pointers) > 0 THEN Some(pointers) ELSE Absent

Swap(values, i, j) ==
  [values EXCEPT ![i + 1] = values[j + 1], ![j + 1] = values[i + 1]]

\* A scan that keeps the elements equal to the pivot on the pivot's right.
RECURSIVE LomutoScanStrict(_, _, _, _, _)
LomutoScanStrict(values, hi, pivotValue, storeIndex, scanIndex) ==
  IF scanIndex >= hi THEN [values |-> values, storeIndex |-> storeIndex]
  ELSE IF values[scanIndex + 1] < pivotValue
  THEN LomutoScanStrict(Swap(values, storeIndex, scanIndex), hi, pivotValue,
                        storeIndex + 1, scanIndex + 1)
  ELSE LomutoScanStrict(values, hi, pivotValue, storeIndex, scanIndex + 1)

\* The for loop of partitionLomuto from scanIndex on: [values, storeIndex]
RECURSIVE LomutoScan(_, _, _, _, _)
LomutoScan(values, hi, pivotValue, storeIndex, scanIndex) ==
  IF scanIndex >= hi THEN [values |-> values, storeIndex |-> storeIndex]
  ELSE IF values[scanIndex + 1] <= pivotValue
  THEN LomutoScan(Swap(values, storeIndex, scanIndex), hi, pivotValue,
                  storeIndex + 1, scanIndex + 1)
  ELSE LomutoScan(values, hi, pivotValue, storeIndex, scanIndex + 1)

\* A partition that never moves the pivot to its place.
partitionWithoutPivotSwap(values, lo, hi) ==
  LET pivotValue == values[hi + 1]
      scanned == LomutoScan(values, hi, pivotValue, lo, lo)
  IN [values |-> scanned.values,
      pivotIndex |-> scanned.storeIndex,
      pivotValue |-> pivotValue]

partitionLomuto(values, lo, hi) ==
  LET pivotValue == values[hi + 1]
      scanned == LomutoScan(values, hi, pivotValue, lo, lo)
  IN [values |-> Swap(scanned.values, scanned.storeIndex, hi),
      pivotIndex |-> scanned.storeIndex,
      pivotValue |-> pivotValue]

\* Array.prototype.slice(from, to) on a 0-based array
Slice(values, from, to) == SubSeq(values, from + 1, to)

\* Array.prototype.join(", ") over numbers
JoinNumbers(values) == JoinStrings([k \in 1..Len(values) |-> ToString(values[k])], ", ")

pushQuicksortStep(context, p) ==
  LET range == createValidRange(Len(context.array), p.lo, p.hi)
      basePointers == createValidPointers(Len(context.array), p.lo, p.hi)
      pointers ==
        IF p.phase = "divide" /\ Has(p.partition)
        THEN Some((IF Has(basePointers) THEN Get(basePointers) ELSE <<>>)
                  \o <<[name |-> "pivot", index |-> Get(p.partition).pivotIndex]>>)
        ELSE basePointers
      step ==
        [id |-> "s" \o ToString(context.nextStepId),
         caption |-> p.caption,
         activeCodeLine |-> getQuicksortCodeLineForPhase(p.phase),
         state |-> [array |-> context.array,
                    pointers |-> pointers,
                    range |-> range,
                    stack |-> Some(p.stack),
                    recursion |-> Some([callId |-> p.callId,
                                        parentCallId |-> p.parentCallId,
                                        fn |-> "quicksort",
                                        depth |-> p.depth,
                                        phase |-> p.phase,
                                        args |-> "lo=" \o ToString(p.lo)
                                                   \o " hi=" \o ToString(p.hi)]),
                    partition |-> p.partition,
                    merge |-> Absent],
         events |-> IF Has(p.events) /\ Len(Get(p.events)) > 0 THEN p.events ELSE Absent]
  IN [context EXCEPT !.steps = Append(context.steps, step),
                     !.nextStepId = context.nextStepId + 1]

StepParams(callId, parentCallId, depth, phase, lo, hi, stack, caption, partition, events) ==
  [callId |-> callId, parentCallId |-> parentCallId, depth |-> depth, phase |-> phase,
   lo |-> lo, hi |-> hi, stack |-> stack, caption |-> caption,
   partition |-> partition, events |-> events]

\* Lines 722-726: what every step of one call shares.
QuicksortCall(context, lo, hi, depth, parentCallId, stackPrefix) ==
  [callId |-> "q" \o ToString(context.nextCallId),
   parentCallId |-> parentCallId, depth |-> depth, lo |-> lo, hi |-> hi,
   argsText |-> "lo=" \o ToString(lo) \o ", hi=" \o ToString(hi),
   stack |-> Append(stackPrefix, "q" \o ToString(context.nextCallId)
                                   \o "(lo=" \o ToString(lo) \o ", hi=" \o ToString(hi) \o ")")]

\* One pushQuicksortStep call of traceQuicksortCall.
PushPhase(context, call, phase, caption, partition, events) ==
  pushQuicksortStep(context,
    StepParams(call.callId, call.parentCallId, call.depth, phase, call.lo, call.hi,
               call.stack, caption, partition, events))

\* TRUE of every context; evaluating it makes the context's value known, so that
\* the statements of traceQuicksortCall are evaluated in program order.
Evaluated(context) == context.nextStepId >= 0

\* An enter that leaves the call-id counter where it was.
TraceEnterSameCallId(context, call) ==
  PushPhase(context, call, "enter",
            "Enter quicksort(" \o call.argsText \o ")", Absent, Absent)

\* Lines 723-738.
TraceEnter(context, call) ==
  PushPhase([context EXCEPT !.nextCallId = context.nextCallId + 1], call, "enter",
            "Enter quicksort(" \o call.argsText \o ")", Absent, Absent)

\* Lines 741-764.
TraceBase(context, call) ==
  PushPhase(PushPhase(context, call, "base",
                      "Base case reached for quicksort(" \o call.argsText \o ")",
                      Absent, Absent),
            call, "return", "Return from quicksort(" \o call.argsText \o ")", Absent, Absent)

\* Lines 767-790; partitionLomuto has already rearranged the array.
TraceDivide(context, call, parted) ==
  PushPhase([context EXCEPT !.array = parted.values], call, "divide",
            "Partition [" \o ToString(call.lo) \o ", " \o ToString(call.hi)
              \o "] with pivot " \o ToString(parted.pivotValue)
              \o " at index " \o ToString(parted.pivotIndex),
            Some([pivotIndex |-> Num(parted.pivotIndex),
                  less |-> Slice(parted.values, call.lo, parted.pivotIndex),
                  greater |-> Slice(parted.values, parted.pivotIndex + 1, call.hi + 1)]),
            Some(<<[type |-> "compare", i |-> Num(call.hi), j |-> Num(call.hi),
                    outcome |-> Some("eq")],
                   [type |-> "swap", i |-> Num(parted.pivotIndex), j |-> Num(call.hi),
                    outcome |-> Absent]>>))

\* Lines 797-807 and 818-828.
TraceRecurse(context, call, phase, side, lo, hi) ==
  PushPhase(context, call, phase,
            "Recurse " \o side \o ": quicksort(lo=" \o ToString(lo)
              \o ", hi=" \o ToString(hi) \o ")", Absent, Absent)

\* Lines 839-849.
TraceReturn(context, call) ==
  IF Evaluated(context)
  THEN PushPhase(context, call, "return",
                 "Return from quicksort(" \o call.argsText \o ")", Absent, Absent)
  ELSE context

RECURSIVE traceQuicksortCall(_, _, _, _, _, _)

\* Lines 809-837: the two recursive calls, each after its announcing step.
TraceRight(context, call, pivotIndex) ==
  IF Evaluated(context)
  THEN TraceReturn(
         traceQuicksortCall(
           TraceRecurse(context, call, "recurse-right", "right", pivotIndex + 1, call.hi),
           pivotIndex + 1, call.hi, call.depth + 1, Some(call.callId), call.stack),
         call)
  ELSE context

TraceLeft(context, call, pivotIndex) ==
  IF Evaluated(context)
  THEN TraceRight(
         traceQuicksortCall(
           TraceRecurse(context, call, "recurse-left", "left", call.lo, pivotIndex - 1),
           call.lo, pivotIndex - 1, call.depth + 1, Some(call.callId), call.stack),
         call, pivotIndex)
  ELSE context

\* A tracer that partitions a range of one element too.
TraceEnteredPartitioningSingletons(context, call) ==
  IF call.lo > call.hi
  THEN TraceBase(context, call)
  ELSE TraceLeft(TraceDivide(context, call, partitionLomuto(context.array, call.lo, call.hi)),
                 call, partitionLomuto(context.array, call.lo, call.hi).pivotIndex)

\* Lines 740-850, from the state the "enter" step leaves.
TraceEntered(context, call) ==
  IF call.lo >= call.hi
  THEN TraceBase(context, call)
  ELSE TraceLeft(TraceDivide(context, call, partitionLomuto(context.array, call.lo, call.hi)),
                 call, partitionLomuto(context.array, call.lo, call.hi).pivotIndex)

traceQuicksortCall(context, lo, hi, depth, parentCallId, stackPrefix) ==
  TraceEntered(TraceEnter(context, QuicksortCall(context, lo, hi, depth, parentCallId,
                                                 stackPrefix)),
               QuicksortCall(context, lo, hi, depth, parentCallId, stackPrefix))

QuicksortSceneComponents ==
  LET component(id, type) == [id |-> id, type |-> type, props |-> Absent]
  IN <<component("bars", "BarArrayView"), component("pointer", "Pointer"),
       component("range", "RangeHighlight"), component("swap", "SwapAnimation"),
       component("compare", "CompareAnimation"), component("partition", "PartitionView"),
       component("stack", "StackView"), component("caption", "CaptionCallout"),
       component("code", "CodeBlock"), component("timeline", "TimelineStepper")>>

QuicksortCodeLines ==
  <<"function quicksort(a, lo, hi):", "  if lo >= hi: return", "  p = partition(a, lo, hi)",
    "  quicksort(a, lo, p - 1)", "  quicksort(a, p + 1, hi)", "  return">>

\* A tracer whose steps all hold the working array itself, and so read as the
\* array reads when tracing has ended.
buildQuicksortSpecSharingTheArray(input) ==
  LET traceContext == [array |-> input.array, steps |-> <<>>,
                       nextStepId |-> 0, nextCallId |-> 0]
      traced == traceQuicksortCall(traceContext, 0, Len(traceContext.array) - 1, 0,
                                   Absent, <<>>)
  IN [version |-> "1.0",
      algorithm |-> "quicksort",
      title |-> "Quicksort walkthrough for [" \o JoinNumbers(input.array) \o "]",
      code |-> [lines |-> QuicksortCodeLines],
      scene |-> [components |-> QuicksortSceneComponents],
      steps |-> [k \in 1..Len(traced.steps) |->
                   [traced.steps[k] EXCEPT !.state.array = traced.array]],
      faults |-> {}]

buildDeterministicQuicksortSpec(input) ==
  LET traceContext == [array |-> input.array, steps |-> <<>>,
                       nextStepId |-> 0, nextCallId |-> 0]
      traced == traceQuicksortCall(traceContext, 0, Len(traceContext.array) - 1, 0,
                                   Absent, <<>>)
  IN [version |-> "1.0",
      algorithm |-> "quicksort",
      title |-> "Quicksort walkthrough for [" \o JoinNumbers(input.array) \o "]",
      code |-> [lines |-> QuicksortCodeLines],
      scene |-> [components |-> QuicksortSceneComponents],
      steps |-> traced.steps,
      faults |-> {}]

\* Some(spec), or Absent for null.
buildDeterministicFallbackSpec(input) ==
  IF input.algorithm = "quicksort"
  THEN Some(buildDeterministicQuicksortSpec(input))
  ELSE Absent

\* Arrays are objects: the caller's array is one, and partitionLomuto writes into
\* the one traceContext.array names.
CallerArray == "normalizedInput.array"

\* A trace context that names the caller's array.
traceContextArrayShared(callerArray) == callerArray

\* Line 856: the spread makes a new array object of the caller's elements.
traceContextArray(callerArray) == "traceContext.array"

\* The elements of the caller's array once buildDeterministicQuicksortSpec has
\* returned `built`: the array written into ends as the last step records it,
\* every other array keeps its elements.
CallerArrayAfterTrace(input, built) ==
  LET elements == [object \in {CallerArray, traceContextArray(CallerArray)} |->
                     IF object = traceContextArray(CallerArray)
                     THEN built.steps[Len(built.steps)].state.array
                     ELSE input.array]
  IN elements[CallerArray]

\* The caller's input once buildDeterministicFallbackSpec has returned `fallbackSpec`.
InputAfterFallback(input, fallbackSpec) ==
  IF Has(fallbackSpec)
  THEN [input EXCEPT !.array = CallerArrayAfterTrace(input, Get(fallbackSpec))]
  ELSE input


(***************************************************************************)
(* Inputs of the model: the requests and what the text generator may       *)
(* return.                                                                 *)
(***************************************************************************)
MaxInputLen == 2

\* The values small arrays are made of: enough for every order of two elements.
InputValues == {1, 2}

SmallArrays ==
  UNION {[1..n -> InputValues] : n \in 1..MaxInputLen}

\* An array of ten-digit numbers: short, and long to write down.
WideArray == [k \in 1..10 |-> 1000000000 + k]

\* The requests: quicksort, whose fallback reads the array, over every array;
\* the other algorithms over one.
Inputs ==
  {[algorithm |-> "quicksort", array |-> arr] : arr \in SmallArrays \cup {WideArray}}
    \cup {[algorithm |-> a, array |-> <<1, 2>>] :
            a \in Range(ARRAYS_ALGORITHMS) \ {"quicksort"}}

Component(id, type) == [id |-> id, type |-> type, props |-> Absent]

SearchStep(id, array) ==
  [id |-> id, caption |-> "Compare the current element with the target",
   activeCodeLine |-> 1,
   state |-> [array |-> array,
              pointers |-> Some(<<[name |-> "i", index |-> Num(0)]>>),
              range |-> Some([l |-> Num(0), r |-> Num(Len(array) - 1)]),
              stack |-> Absent, recursion |-> Absent, partition |-> Absent,
              merge |-> Absent],
   events |-> Some(<<[type |-> "compare", i |-> Num(0), j |-> Num(0),
                      outcome |-> Some("eq")]>>)]

\* A well-formed search walkthrough of `count` steps.
SearchDoc(algorithm, array, count) ==
  [version |-> "1.0", algorithm |-> algorithm, title |-> "Search walkthrough",
   code |-> [lines |-> <<"for i in 0..n-1:", "  if a[i] == target: return i">>],
   scene |-> [components |-> <<Component("array", "ArrayView"),
                               Component("code", "CodeBlock")>>],
   steps |-> [k \in 1..count |-> SearchStep("s" \o ToString(k - 1), array)],
   faults |-> {}]

RecursionStep(id, fn, array, phase, line) ==
  [id |-> id, caption |-> phase \o " " \o fn \o "(lo=0, hi=0)", activeCodeLine |-> line,
   state |-> [array |-> array, pointers |-> Absent, range |-> Absent,
              stack |-> Some(<<"c0(lo=0, hi=0)">>),
              recursion |-> Some([callId |-> "c0", parentCallId |-> Absent, fn |-> fn,
                                  depth |-> 0, phase |-> phase, args |-> "lo=0 hi=0"]),
              partition |-> Absent, merge |-> Absent],
   events |-> Absent]

\* A well-formed recursive walkthrough: one call that is a base case.
BaseCaseDoc(algorithm, array) ==
  [version |-> "1.0", algorithm |-> algorithm, title |-> "Recursive walkthrough",
   code |-> [lines |-> <<"if lo >= hi: return", "return">>],
   scene |-> [components |-> <<Component("array", "ArrayView"),
                               Component("stack", "StackView"),
                               Component("code", "CodeBlock")>>],
   steps |-> <<RecursionStep("s0", algorithm, array, "enter", 1),
               RecursionStep("s1", algorithm, array, "base", 1),
               RecursionStep("s2", algorithm, array, "return", 2)>>,
   faults |-> {}]

\* What a model gets right: a walkthrough of the algorithm it declares.
GoodDoc(algorithm, array) ==
  IF algorithm = "quicksort" /\ Len(array) <= MaxInputLen
    THEN [buildDeterministicQuicksortSpec([algorithm |-> algorithm, array |-> array])
            EXCEPT !.title = "Quicksort"]
  ELSE IF isRecursiveAlgorithm(algorithm) THEN BaseCaseDoc(algorithm, array)
  ELSE SearchDoc(algorithm, array, 1)

\* What a model gets wrong: one document per failure class of the validator.
BrokenDocs(good, n) ==
  { [good EXCEPT !.title = ""],
    [good EXCEPT !.steps[1].activeCodeLine = Len(good.code.lines) + 1],
    [good EXCEPT !.steps[1].state.pointers = Some(<<[name |-> "i", index |-> Num(n)]>>)],
    [good EXCEPT !.steps[1].events =
       Some(<<[type |-> "swap", i |-> Num(0), j |-> Num(-1), outcome |-> Absent]>>)],
    [good EXCEPT !.faults = {Fault("invalid_type", "steps.0.events.0.j", 0)}],
    [good EXCEPT !.steps[1].state.recursion = Absent] }

\* A walkthrough that fills the timeline: MAX_TIMELINE_STEPS steps.
LongDoc(array) == SearchDoc("linear-search", array, MAX_TIMELINE_STEPS)

\* An algorithm that was not asked for.
OtherAlgorithm(algorithm) == IF algorithm = "quicksort" THEN "mergesort" ELSE "quicksort"

CandidateDocs(input) ==
  {GoodDoc(input.algorithm, input.array),
   GoodDoc(OtherAlgorithm(input.algorithm), input.array),
   LongDoc(input.array)}
    \cup BrokenDocs(GoodDoc(input.algorithm, input.array), Len(input.array))

\* The texts requestModelChat may resolve to for a request.
CandidateTexts(input) ==
  {Text("none", Absent)}
    \cup {Text("none", Some(doc)) : doc \in CandidateDocs(input)}
    \cup {Text("both", Some(GoodDoc(input.algorithm, input.array))),
          Text("open", Some(GoodDoc(input.algorithm, input.array)))}


(***************************************************************************)
(* generateValidatedSpec.  The function runs from one await to the next    *)
(* without interruption: an action is what it does between two             *)
(* suspensions.                                                            *)
(***************************************************************************)
UpstreamError == [name |-> "UpstreamError", message |-> "Model request failed.",
                  details |-> Absent]

StepBudgetError ==
  ArraysSpecValidationError("Visualization spec failed validation.",
    Some("Recursive detail exceeded step budget of " \o ToString(MAX_TIMELINE_STEPS)
           \o " steps. Provide a smaller array so the full recursion lifecycle can be shown."))

\* A loop that allows one repair more.
RepairBudgetGenerous(att) == att <= SPEC_MAX_REPAIR_ATTEMPTS

\* Line 947 negated: the loop goes on to a repair request.
RepairBudgetLeft(att) == att < SPEC_MAX_REPAIR_ATTEMPTS

\* Lines 974-977: the fallback's validation decides.
FallbackOutcome(outcome) == IF outcome.ok THEN outcome.spec ELSE Absent

\* An orchestrator that returns the fallback without validating it.
TryFallbackUnvalidated(fallbackSpec, input) == fallbackSpec

\* Lines 971-981, from what buildDeterministicFallbackSpec returned.
TryFallback(fallbackSpec, input) ==
  IF ~Has(fallbackSpec) THEN Absent
  ELSE FallbackOutcome(ValidateCandidate(JsonStringify(Get(fallbackSpec)), input))

\* Lines 970-981: Some(validated fallback), or Absent when there is none or it is
\* rejected (the catch swallows its error).
ValidatedFallback(input) == TryFallback(buildDeterministicFallbackSpec(input), input)

\* An orchestrator without the step-budget branch.
FinalErrorLastOnly(input, candidate, lastError) ==
  IF Has(lastError) THEN Get(lastError)
  ELSE ArraysSpecValidationError("Visualization spec failed validation.", Absent)

\* An orchestrator that counts steps whatever the algorithm.
FinalErrorAnyAlgorithm(input, candidate, lastError) ==
  IF /\ getCandidateStepCount(candidate) # -1
     /\ getCandidateStepCount(candidate) >= MAX_TIMELINE_STEPS
  THEN StepBudgetError
  ELSE IF Has(lastError) THEN Get(lastError)
  ELSE ArraysSpecValidationError("Visualization spec failed validation.", Absent)

\* Lines 983-996: the error thrown once the loop and the fallback have failed.
FinalError(input, candidate, lastError) ==
  IF /\ isRecursiveAlgorithm(input.algorithm)
     /\ getCandidateStepCount(candidate) # -1
     /\ getCandidateStepCount(candidate) >= MAX_TIMELINE_STEPS
  THEN StepBudgetError
  ELSE IF Has(lastError) THEN Get(lastError)
  ELSE ArraysSpecValidationError("Visualization spec failed validation.", Absent)

\* The loop index at which the candidate now arriving is validated.
ArrivingAttempt == IF pc = "awaitInitial" THEN 0 ELSE attempt + 1

\* An orchestrator that asks for two candidates at once.
RequestInitialTwice ==
  /\ pc = "start"
  /\ request' = Some(buildVisualizationPrompts(normalizedInput))
  /\ genCalls' = genCalls + 2
  /\ outstanding' = outstanding + 2
  /\ pc' = "awaitInitial"
  /\ UNCHANGED <<normalizedInput, attempt, candidateSpec, lastValidationError, result,
                 thrown, verdicts, fallbackTried, probe, verdict, runs, activations>>

\* Lines 918-931: the initial request is issued and the function suspends.
RequestInitial ==
  /\ pc = "start"
  /\ request' = Some(buildVisualizationPrompts(normalizedInput))
  /\ genCalls' = genCalls + 1
  /\ outstanding' = outstanding + 1
  /\ pc' = "awaitInitial"
  /\ UNCHANGED <<normalizedInput, attempt, candidateSpec, lastValidationError, result,
                 thrown, verdicts, fallbackTried, probe, verdict, runs, activations>>

\* An orchestrator that reaches for the fallback when the generator fails.
GenerationFailsIntoFallback ==
  /\ pc \in {"awaitInitial", "awaitRepair"}
  /\ outstanding' = outstanding - 1
  /\ request' = Absent
  /\ thrown' = Some(UpstreamError)
  /\ fallbackTried' = TRUE
  /\ pc' = "threw"
  /\ UNCHANGED <<normalizedInput, attempt, candidateSpec, lastValidationError, result,
                 genCalls, verdicts, probe, verdict, runs, activations>>

\* requestModelChat rejects: the await throws outside any try block that would
\* catch it (the repair call sits inside the catch clause), so the function ends.
GenerationFails ==
  /\ pc \in {"awaitInitial", "awaitRepair"}
  /\ outstanding' = outstanding - 1
  /\ request' = Absent
  /\ thrown' = Some(UpstreamError)
  /\ pc' = "threw"
  /\ UNCHANGED <<normalizedInput, attempt, candidateSpec, lastValidationError, result,
                 genCalls, verdicts, fallbackTried, probe, verdict, runs, activations>>

\* A candidate arrives and passes: lines 937-939.
CandidateAccepted(text) ==
  /\ pc \in {"awaitInitial", "awaitRepair"}
  /\ \E outcome \in {ValidateCandidate(text, normalizedInput)} :
       /\ outcome.ok
       /\ verdicts' = Append(verdicts, outcome.ok)
       /\ result' = outcome.spec
  /\ outstanding' = outstanding - 1
  /\ request' = Absent
  /\ candidateSpec' = Some(text)
  /\ attempt' = ArrivingAttempt
  /\ pc' = "returned"
  /\ UNCHANGED <<normalizedInput, lastValidationError, thrown, genCalls,
                 fallbackTried, probe, verdict, runs, activations>>

\* A candidate arrives, fails, and a repair is requested: lines 940-966.
CandidateRejected(text) ==
  /\ pc \in {"awaitInitial", "awaitRepair"}
  /\ RepairBudgetLeft(ArrivingAttempt)
  /\ \E outcome \in {ValidateCandidate(text, normalizedInput)} :
       /\ ~outcome.ok
       /\ verdicts' = Append(verdicts, outcome.ok)
       /\ lastValidationError' = outcome.error
       /\ request' = Some(RepairRequestFor(normalizedInput, text, Get(outcome.error)))
  /\ candidateSpec' = Some(text)
  /\ attempt' = ArrivingAttempt
  /\ genCalls' = genCalls + 1
  /\ outstanding' = outstanding          \* one call settled, one issued
  /\ pc' = "awaitRepair"
  /\ UNCHANGED <<normalizedInput, result, thrown, fallbackTried, probe, verdict, runs, activations>>

\* The last candidate fails and the deterministic fallback is returned: 970-977.
FallbackReturned(text) ==
  /\ pc \in {"awaitInitial", "awaitRepair"}
  /\ ~RepairBudgetLeft(ArrivingAttempt)
  /\ \E outcome \in {ValidateCandidate(text, normalizedInput)} :
       /\ ~outcome.ok
       /\ verdicts' = Append(verdicts, outcome.ok)
       /\ lastValidationError' = outcome.error
  /\ \E fallback \in {ValidatedFallback(normalizedInput)} :
       /\ Has(fallback)
       /\ result' = fallback
  /\ outstanding' = outstanding - 1
  /\ request' = Absent
  /\ candidateSpec' = Some(text)
  /\ attempt' = ArrivingAttempt
  /\ fallbackTried' = TRUE
  /\ pc' = "returned"
  /\ normalizedInput' =
       InputAfterFallback(normalizedInput, buildDeterministicFallbackSpec(normalizedInput))
  /\ UNCHANGED <<thrown, genCalls, probe, verdict, runs, activations>>

\* The last candidate fails and no fallback is returned: lines 970-996.
BudgetExhausted(text) ==
  /\ pc \in {"awaitInitial", "awaitRepair"}
  /\ ~RepairBudgetLeft(ArrivingAttempt)
  /\ \E outcome \in {ValidateCandidate(text, normalizedInput)} :
       /\ ~outcome.ok
       /\ verdicts' = Append(verdicts, outcome.ok)
       /\ lastValidationError' = outcome.error
       /\ thrown' = Some(FinalError(normalizedInput, text, outcome.error))
  /\ ~Has(ValidatedFallback(normalizedInput))
  /\ outstanding' = outstanding - 1
  /\ request' = Absent
  /\ candidateSpec' = Some(text)
  /\ attempt' = ArrivingAttempt
  /\ fallbackTried' = (normalizedInput.algorithm = "quicksort")
  /\ pc' = "threw"
  /\ normalizedInput' =
       InputAfterFallback(normalizedInput, buildDeterministicFallbackSpec(normalizedInput))
  /\ UNCHANGED <<result, genCalls, probe, verdict, runs, activations>>

Init ==
  /\ normalizedInput \in Inputs
  /\ pc = "start"
  /\ attempt = 0
  /\ candidateSpec = Absent
  /\ lastValidationError = Absent
  /\ request = Absent
  /\ result = Absent
  /\ thrown = Absent
  /\ genCalls = 0
  /\ verdicts = <<>>
  /\ outstanding = 0
  /\ fallbackTried = FALSE
  /\ probe = Absent
  /\ verdict = Absent
  /\ runs = <<>>
  /\ activations = <<>>

Next ==
  \/ RequestInitial
  \/ GenerationFails
  \/ \E text \in CandidateTexts(normalizedInput) : CandidateAccepted(text)
  \/ \E text \in CandidateTexts(normalizedInput) : CandidateRejected(text)
  \/ \E text \in CandidateTexts(normalizedInput) : FallbackReturned(text)
  \/ \E text \in CandidateTexts(normalizedInput) : BudgetExhausted(text)

Spec == Init /\ [][Next]_vars


(***************************************************************************)
(* Properties of generateValidatedSpec, checked under Spec.                *)
(***************************************************************************)
\* What validating the candidate last received yields.
LastOutcome == ValidateCandidate(Get(candidateSpec), normalizedInput)

\* The details a validation error carries ("" when it carries none).
DetailsOf(error) == IF Has(error.details) THEN Get(error.details) ELSE ""

NoFallbackAlgorithms == {"linear-search", "binary-search", "mergesort"}

\* Every candidate of the budget has been validated and the last one failed.
BudgetSpent == Len(verdicts) = 4 /\ ~verdicts[4]

\* C1: whatever the candidates were, a run that has returned holds a spec in which
\* the schema (structure, bounds, recursion lifecycle) finds no issue and whose
\* algorithm is the one requested, be it a candidate or the fallback; a run that
\* has not returned holds no spec, and one that has raised holds an error.
C1_ReturnsOnlyValidatedSpecs ==
  /\ Has(result) <=> pc = "returned"
  /\ Has(thrown) <=> pc = "threw"
  /\ pc = "returned" =>
       /\ arraysVizSpecSchema(Get(result)) = <<>>
       /\ Get(result).algorithm = normalizedInput.algorithm

C1_Witness ==
  /\ pc = "returned"
  /\ fallbackTried
  /\ Has(result)

\* C2: the generator is invoked at most 4 times, 1 initial request and at most
\* SPEC_MAX_REPAIR_ATTEMPTS = 3 repairs, and once the fourth candidate has been
\* validated no call is outstanding and the run is over.
C2_AtMostFourGenerationCalls ==
  /\ genCalls <= 4
  /\ genCalls <= 1 + SPEC_MAX_REPAIR_ATTEMPTS
  /\ Len(verdicts) >= 4 =>
       /\ Len(verdicts) = 4
       /\ genCalls = 4
       /\ outstanding = 0
       /\ pc \in {"returned", "threw"}

C2_Witness ==
  /\ genCalls = 4
  /\ Len(verdicts) = 4
  /\ pc = "threw"

\* C3: if candidate k (1 <= k <= 4) is the first valid one, it is the last one
\* validated, exactly k generation calls were made, and the spec returned is the
\* document of candidate k.
C3_FirstValidCandidateReturned ==
  \A k \in 1..Len(verdicts) :
    verdicts[k] =>
      /\ k = Len(verdicts)
      /\ k <= 4
      /\ genCalls = k
      /\ pc = "returned"
      /\ result = JsonParse(stripMarkdownFences(Get(candidateSpec)))

C3_Witness ==
  /\ pc = "returned"
  /\ verdicts = <<FALSE, TRUE>>
  /\ genCalls = 2

C5_QuicksortNeverRaisesValidationError ==
  normalizedInput.algorithm = "quicksort" =>
    /\ BudgetSpent => pc = "returned" /\ fallbackTried
    /\ ~(pc = "threw" /\ Get(thrown).name = "ArraysSpecValidationError")

\* C6: a generation call that fails ends the run at once with the upstream error:
\* the step that settles a call without a verdict raises that error, issues no
\* call, returns nothing and leaves the fallback untried; the run then holds one
\* call more than verdicts, and a run that has raised takes no further step.
C6_UpstreamErrorPropagates ==
  /\ [][(outstanding' < outstanding /\ Len(verdicts') = Len(verdicts)) =>
          /\ thrown' = Some(UpstreamError)
          /\ pc' = "threw"
          /\ genCalls' = genCalls
          /\ ~fallbackTried'
          /\ result' = Absent]_vars
  /\ [](thrown = Some(UpstreamError) =>
          /\ pc = "threw"
          /\ outstanding = 0
          /\ genCalls = Len(verdicts) + 1
          /\ ~fallbackTried
          /\ ~Has(result))
  /\ [][pc # "threw"]_vars

C6_Witness ==
  /\ thrown = Some(UpstreamError)
  /\ genCalls = 3
  /\ Len(verdicts) = 2

\* C7: calls and validations alternate: at most one call is outstanding, the calls
\* issued are the verdicts given or one more, an outstanding call is that one
\* more, and every call but the first came after the candidate before it was
\* found invalid.
C7_CallsAndValidationsAlternate ==
  /\ outstanding \in {0, 1}
  /\ genCalls - Len(verdicts) \in {0, 1}
  /\ outstanding = 1 => genCalls = Len(verdicts) + 1
  /\ \A k \in 1..(genCalls - 1) : k <= Len(verdicts) /\ ~verdicts[k]

C7_Witness ==
  /\ outstanding = 1
  /\ genCalls = 3
  /\ verdicts = <<FALSE, FALSE>>

\* C8: while repair request n is in flight it quotes the candidate received last,
\* with the details of the error that validating that very candidate raises and
\* the hint built from those details; that error is the one kept as the last.
C8_RepairQuotesLastCandidate ==
  pc = "awaitRepair" =>
    /\ Has(request)
    /\ Get(request).kind = "repair"
    /\ Get(request).invalidSpec = candidateSpec
    /\ ~LastOutcome.ok
    /\ Get(request).validationError = DetailsOf(Get(LastOutcome.error))
    /\ Get(request).repairHint = buildRepairHint(Get(LastOutcome.error).details)
    /\ lastValidationError = LastOutcome.error
    /\ genCalls = attempt + 2

C8_Witness ==
  /\ pc = "awaitRepair"
  /\ attempt = 2
  /\ Get(request).repairHint # ""

\* The candidate received last passes the schema and declares another algorithm.
DeclaresOtherAlgorithm ==
  /\ Has(candidateSpec)
  /\ parseAndValidateArraysSpec(Get(candidateSpec)).ok
  /\ Get(Get(candidateSpec).body).algorithm # normalizedInput.algorithm

\* C9: no spec is returned whose algorithm is not the requested one; a candidate
\* that passes the schema and declares another algorithm gets a failing verdict,
\* uses up its attempt, is not the spec returned, and while budget remains is
\* answered by a repair request that quotes it and the mismatch.
C9_AlgorithmMismatchIsAFailure ==
  /\ Has(result) => Get(result).algorithm = normalizedInput.algorithm
  /\ DeclaresOtherAlgorithm =>
       /\ ~verdicts[Len(verdicts)]
       /\ Len(verdicts) = attempt + 1
       /\ result # Get(candidateSpec).body
       /\ DetailsOf(Get(lastValidationError)) =
            "Expected algorithm " \o normalizedInput.algorithm \o " but received "
              \o Get(Get(candidateSpec).body).algorithm \o "."
       /\ (attempt < 3 /\ ~Has(thrown)) =>
            /\ pc = "awaitRepair"
            /\ Get(request).kind = "repair"
            /\ Get(request).invalidSpec = candidateSpec
            /\ Get(request).validationError = DetailsOf(Get(lastValidationError))

C9_Witness ==
  /\ pc = "awaitRepair"
  /\ DeclaresOtherAlgorithm
  /\ attempt = 1


(***************************************************************************)
(* parseAndValidateArraysSpec on its own: documents whose index fields     *)
(* take every value around the bounds of the step's array.                 *)
(***************************************************************************)
MaxProbeLen == 2

\* The values an index field is probed with for an array of n elements: the
\* integers from -1 to n, and 0.5.
ProbeIndices(n) == {Num(k) : k \in (-1)..n} \cup {Half(0)}

\* The index fields of a step: all present and valid, or all absent.
ProbeFields(present) ==
  [pointer |-> IF present THEN Some(Num(0)) ELSE Absent,
   range |-> IF present THEN Some([l |-> Num(0), r |-> Num(0)]) ELSE Absent,
   pivotIndex |-> IF present THEN Some(Num(0)) ELSE Absent,
   writeRange |-> IF present THEN Some([l |-> Num(0), r |-> Num(0)]) ELSE Absent,
   event |-> IF present THEN Some([i |-> Num(0), j |-> Num(0)]) ELSE Absent]

\* One field, or one pair, takes every probe value; the others stay as they are.
ProbeFieldSets(n) ==
  UNION {
    LET fields == ProbeFields(present)
        I == ProbeIndices(n)
    IN {[fields EXCEPT !.pointer = Some(x)] : x \in I}
         \cup {[fields EXCEPT !.pivotIndex = Some(x)] : x \in I}
         \cup {[fields EXCEPT !.range = Some([l |-> x, r |-> y])] : x \in I, y \in I}
         \cup {[fields EXCEPT !.writeRange = Some([l |-> x, r |-> y])] : x \in I, y \in I}
         \cup {[fields EXCEPT !.event = Some([i |-> x, j |-> y])] : x \in I, y \in I}
    : present \in BOOLEAN }

ProbeStep(array, fields) ==
  [id |-> "s0", caption |-> "Compare the current element with the target",
   activeCodeLine |-> 1,
   state |-> [array |-> array,
              pointers |-> IF Has(fields.pointer)
                           THEN Some(<<[name |-> "i", index |-> Get(fields.pointer)]>>)
                           ELSE Absent,
              range |-> fields.range,
              stack |-> Absent,
              recursion |-> Absent,
              partition |-> IF Has(fields.pivotIndex)
                            THEN Some([pivotIndex |-> Get(fields.pivotIndex),
                                       less |-> <<>>, greater |-> <<>>])
                            ELSE Absent,
              merge |-> IF Has(fields.writeRange)
                        THEN Some([left |-> <<1>>, right |-> <<2>>, merged |-> <<1>>,
                                   writeRange |-> fields.writeRange])
                        ELSE Absent],
   events |-> IF Has(fields.event)
              THEN Some(<<[type |-> "swap", i |-> Get(fields.event).i,
                           j |-> Get(fields.event).j, outcome |-> Absent]>>)
              ELSE Absent]

ProbeDocs ==
  UNION {
    {[SearchDoc("linear-search", [k \in 1..n |-> k], 1)
        EXCEPT !.steps = <<ProbeStep([k \in 1..n |-> k], fields)>>]
       : fields \in ProbeFieldSets(n)}
    : n \in 1..MaxProbeLen }

\* A caller hands a text to parseAndValidateArraysSpec.
ValidateProbe(fence) ==
  /\ pc = "idle"
  /\ Has(probe)
  /\ ~Has(verdict)
  /\ verdict' = Some(parseAndValidateArraysSpec(Text(fence, probe)))
  /\ UNCHANGED <<orchestratorVars, probe, runs, activations>>

ValidatorInit ==
  /\ normalizedInput = [algorithm |-> "linear-search", array |-> <<1, 2>>]
  /\ pc = "idle"
  /\ attempt = 0
  /\ candidateSpec = Absent
  /\ lastValidationError = Absent
  /\ request = Absent
  /\ result = Absent
  /\ thrown = Absent
  /\ genCalls = 0
  /\ verdicts = <<>>
  /\ outstanding = 0
  /\ fallbackTried = FALSE
  /\ probe \in {Some(doc) : doc \in ProbeDocs}
  /\ verdict = Absent
  /\ runs = <<>>
  /\ activations = <<>>

ValidatorNext == \E fence \in {"none", "both", "open"} : ValidateProbe(fence)

SpecValidator == ValidatorInit /\ [][ValidatorNext]_vars

\* An integer within the bounds of an array of n elements.
IndexInBounds(idx, n) == ~idx.half /\ 0 <= idx.whole /\ idx.whole < n

RangeInBounds(rng, n) ==
  /\ IndexInBounds(rng.l, n)
  /\ IndexInBounds(rng.r, n)
  /\ rng.l.whole <= rng.r.whole

StepIndicesInBounds(step) ==
  LET n == Len(step.state.array) IN
  /\ Has(step.state.pointers) =>
       \A k \in 1..Len(Get(step.state.pointers)) :
         IndexInBounds(Get(step.state.pointers)[k].index, n)
  /\ Has(step.state.range) => RangeInBounds(Get(step.state.range), n)
  /\ Has(step.state.partition) => IndexInBounds(Get(step.state.partition).pivotIndex, n)
  /\ (Has(step.state.merge) /\ Has(Get(step.state.merge).writeRange)) =>
       RangeInBounds(Get(Get(step.state.merge).writeRange), n)
  /\ Has(step.events) =>
       \A k \in 1..Len(Get(step.events)) :
         /\ IndexInBounds(Get(step.events)[k].i, n)
         /\ IndexInBounds(Get(step.events)[k].j, n)

\* C10: in a spec parseAndValidateArraysSpec accepts, in every step every pointer,
\* range.l, range.r, partition.pivotIndex, merge.writeRange.l, merge.writeRange.r
\* and every event's i and j is an integer idx with 0 <= idx < state.array.length,
\* and every range and writeRange has l <= r.
C10_AcceptedIndicesInBounds ==
  (Has(verdict) /\ Get(verdict).ok) =>
    \A k \in 1..Len(Get(Get(verdict).spec).steps) :
      StepIndicesInBounds(Get(Get(verdict).spec).steps[k])

C10_Witness ==
  /\ Has(verdict)
  /\ Get(verdict).ok
  /\ Get(probe).steps[1].state.range = Some([l |-> Num(0), r |-> Num(1)])
  /\ Has(Get(probe).steps[1].state.pointers)
  /\ Has(Get(probe).steps[1].state.partition)
  /\ Has(Get(probe).steps[1].state.merge)
  /\ Has(Get(probe).steps[1].events)


(***************************************************************************)
(* parseAndValidateArraysSpec on the structure of a document: its scene    *)
(* and the recursion lifecycle its steps tell.                             *)
(***************************************************************************)
MaxSceneLen == 2

MaxProbeDepth == 5

MaxLifecycleLen == 3

\* The component types scenes are probed with.
SceneTypes == {"ArrayView", "CodeBlock", "StackView"}

\* Every list of at most MaxSceneLen components over SceneTypes, ids distinct.
SceneLists ==
  UNION {{[k \in 1..n |-> Component("c" \o ToString(k), types[k])]
            : types \in [1..n -> SceneTypes]}
         : n \in 1..MaxSceneLen}

\* A search walkthrough and a recursive walkthrough under every scene.
SceneDocs ==
  {[SearchDoc("linear-search", <<1, 2>>, 1) EXCEPT !.scene.components = scene]
     : scene \in SceneLists}
    \cup {[BaseCaseDoc("quicksort", <<1, 2>>) EXCEPT !.scene.components = scene]
            : scene \in SceneLists}

\* What a step tells of the recursion: the call, its depth and phase, the length
\* of state.stack (-1: no stack), and which optional parts the step carries.
Frame(callId, depth, phase) ==
  [callId |-> callId, depth |-> depth, phase |-> phase, stackLength |-> depth + 1,
   recursion |-> TRUE, partition |-> phase = "divide", merge |-> phase = "combine"]

FrameStep(k, fn, frame) ==
  [id |-> "s" \o ToString(k - 1),
   caption |-> frame.phase \o " " \o frame.callId,
   activeCodeLine |-> 1,
   state |-> [array |-> <<1, 2>>, pointers |-> Absent, range |-> Absent,
              stack |-> IF frame.stackLength < 0 THEN Absent
                        ELSE Some([m \in 1..frame.stackLength |-> "call"]),
              recursion |-> IF frame.recursion
                            THEN Some([callId |-> frame.callId, parentCallId |-> Absent,
                                       fn |-> fn, depth |-> frame.depth,
                                       phase |-> frame.phase, args |-> "lo=0 hi=1"])
                            ELSE Absent,
              partition |-> IF frame.partition
                            THEN Some([pivotIndex |-> Num(0), less |-> <<>>,
                                       greater |-> <<>>])
                            ELSE Absent,
              merge |-> IF frame.merge
                        THEN Some([left |-> <<1>>, right |-> <<2>>, merged |-> <<1>>,
                                   writeRange |-> Absent])
                        ELSE Absent],
   events |-> Absent]

\* The walkthrough whose steps tell the frames.
FrameDoc(algorithm, frames) ==
  [version |-> "1.0", algorithm |-> algorithm, title |-> "Recursive walkthrough",
   code |-> [lines |-> <<"sort(a, lo, hi)">>],
   scene |-> [components |-> <<Component("array", "ArrayView"),
                               Component("stack", "StackView"),
                               Component("code", "CodeBlock")>>],
   steps |-> [k \in 1..Len(frames) |-> FrameStep(k, algorithm, frames[k])],
   faults |-> {}]

\* One call that is a base case.
BaseCaseFrames ==
  <<Frame("c0", 0, "enter"), Frame("c0", 0, "base"), Frame("c0", 0, "return")>>

\* One call that divides into two base cases.
NestedFrames(algorithm) ==
  <<Frame("c0", 0, "enter"), Frame("c0", 0, "divide"), Frame("c0", 0, "recurse-left"),
    Frame("c1", 1, "enter"), Frame("c1", 1, "base"), Frame("c1", 1, "return"),
    Frame("c0", 0, "recurse-right"),
    Frame("c2", 1, "enter"), Frame("c2", 1, "base"), Frame("c2", 1, "return")>>
    \o (IF algorithm = "mergesort" THEN <<Frame("c0", 0, "combine")>> ELSE <<>>)
    \o <<Frame("c0", 0, "return")>>

RemoveAt(seq, k) == SubSeq(seq, 1, k - 1) \o SubSeq(seq, k + 1, Len(seq))

InsertAfter(seq, k, x) == SubSeq(seq, 1, k) \o <<x>> \o SubSeq(seq, k + 1, Len(seq))

\* The frames, and every sequence one edit away from them: a step's phase, depth,
\* stack length or call changed, an optional part dropped, a step removed, a step
\* told once more anywhere in the timeline.
FrameEdits(frames) ==
  LET K == 1..Len(frames) IN
  {frames}
    \cup {[frames EXCEPT ![k] = Frame(@.callId, @.depth, p)]
            : k \in K, p \in Range(RECURSION_PHASES)}
    \cup {[frames EXCEPT ![k] = Frame(@.callId, d, @.phase)]
            : k \in K, d \in 0..MaxProbeDepth}
    \cup {[frames EXCEPT ![k].stackLength = n] : k \in K, n \in (-1)..2}
    \cup {[frames EXCEPT ![k].callId = c] : k \in K, c \in {"c0", "c1", "c2"}}
    \cup {[frames EXCEPT ![k].recursion = FALSE] : k \in K}
    \cup {[frames EXCEPT ![k].partition = FALSE] : k \in K}
    \cup {[frames EXCEPT ![k].merge = FALSE] : k \in K}
    \cup {RemoveAt(frames, k) : k \in K}
    \cup {InsertAfter(frames, m, frames[k]) : k \in K, m \in K}

\* Every timeline of at most MaxLifecycleLen steps of one call at depth 0.
ShortTimelines ==
  UNION {{[k \in 1..n |-> Frame("c0", 0, phases[k])]
            : phases \in [1..n -> Range(RECURSION_PHASES)]}
         : n \in 1..MaxLifecycleLen}

LifecycleDocs ==
  UNION {{FrameDoc(algorithm, frames)
            : frames \in FrameEdits(BaseCaseFrames) \cup FrameEdits(NestedFrames(algorithm))}
         : algorithm \in {"linear-search", "quicksort", "mergesort"}}
    \cup UNION {{FrameDoc(algorithm, frames) : frames \in ShortTimelines}
                : algorithm \in RECURSIVE_ALGORITHMS}

StructureDocs == SceneDocs \cup LifecycleDocs

StructureInit ==
  /\ normalizedInput = [algorithm |-> "quicksort", array |-> <<1, 2>>]
  /\ pc = "idle"
  /\ attempt = 0
  /\ candidateSpec = Absent
  /\ lastValidationError = Absent
  /\ request = Absent
  /\ result = Absent
  /\ thrown = Absent
  /\ genCalls = 0
  /\ verdicts = <<>>
  /\ outstanding = 0
  /\ fallbackTried = FALSE
  /\ probe \in {Some(doc) : doc \in StructureDocs}
  /\ verdict = Absent
  /\ runs = <<>>
  /\ activations = <<>>

StructureNext == ValidateProbe("none")

SpecStructure == StructureInit /\ [][StructureNext]_vars

\* The document parseAndValidateArraysSpec returned, in the states where it has
\* accepted the probe.
Accepted == Has(verdict) /\ Get(verdict).ok

AcceptedSpec == Get(Get(verdict).spec)

Rejected == Has(verdict) /\ ~Get(verdict).ok

LacksCodeBlock(spec) ==
  \A k \in 1..Len(spec.scene.components) : spec.scene.components[k].type # "CodeBlock"

RepeatsComponentType(spec) ==
  \E k, m \in 1..Len(spec.scene.components) :
    k # m /\ spec.scene.components[k].type = spec.scene.components[m].type

\* C11 as stated: a document whose scene.components lacks a CodeBlock component,
\* or holds two components of the same type, is rejected by
\* parseAndValidateArraysSpec.
C11_SceneWithoutCodeBlockOrRepeatedTypeRejected ==
  (Has(verdict) /\ (LacksCodeBlock(Get(probe)) \/ RepeatsComponentType(Get(probe))))
    => Rejected

\* The accepted documents the recursion rules are about.
AcceptedRecursive == Accepted /\ AcceptedSpec.algorithm \in {"quicksort", "mergesort"}

\* The steps of a document that carry state.recursion, and those of one call.
RecursionSteps(spec) == {k \in 1..Len(spec.steps) : Has(spec.steps[k].state.recursion)}

RecursionAt(spec, k) == Get(spec.steps[k].state.recursion)

CallIdsOf(spec) == {RecursionAt(spec, k).callId : k \in RecursionSteps(spec)}

GroupSteps(spec, callId) ==
  {k \in RecursionSteps(spec) : RecursionAt(spec, k).callId = callId}

PhaseSteps(spec, callId, phase) ==
  {k \in GroupSteps(spec, callId) : RecursionAt(spec, k).phase = phase}

IsBaseGroup(spec, callId) == PhaseSteps(spec, callId, "base") # {}

\* The place of a phase in the order a call of the algorithm goes through.
PhaseRank(algorithm, phase) ==
  CASE phase = "enter" -> 1
    [] phase = "divide" -> 2
    [] phase = "recurse-left" -> 3
    [] phase = "recurse-right" -> 4
    [] phase = "combine" /\ algorithm = "mergesort" -> 5
    [] phase = "return" -> 6
    [] OTHER -> 0

\* The phases the steps of a call go through, each required phase present, in the
\* order of the algorithm.
GroupInRequiredOrder(spec, callId) ==
  /\ \A phase \in {"enter", "divide", "recurse-left", "recurse-right", "return"}
                    \cup (IF spec.algorithm = "mergesort" THEN {"combine"} ELSE {}) :
       PhaseSteps(spec, callId, phase) # {}
  /\ \A k, m \in GroupSteps(spec, callId) :
       k < m => PhaseRank(spec.algorithm, RecursionAt(spec, k).phase)
                  <= PhaseRank(spec.algorithm, RecursionAt(spec, m).phase)

\* C12 as stated: in an accepted quicksort or mergesort document, the steps of
\* every callId hold exactly one enter step and exactly one return step, and the
\* phases of a call that is not a base case appear in the order the algorithm
\* requires.
C12_OneEnterOneReturnInRequiredOrder ==
  AcceptedRecursive =>
    \A callId \in CallIdsOf(AcceptedSpec) :
      /\ Cardinality(PhaseSteps(AcceptedSpec, callId, "enter")) = 1
      /\ Cardinality(PhaseSteps(AcceptedSpec, callId, "return")) = 1
      /\ ~IsBaseGroup(AcceptedSpec, callId) => GroupInRequiredOrder(AcceptedSpec, callId)

\* C13 as stated: in an accepted quicksort or mergesort document, no step of a
\* callId comes after a step in which that callId has phase return.
C13_NoStepAfterReturn ==
  AcceptedRecursive =>
    \A callId \in CallIdsOf(AcceptedSpec) :
      \A k \in PhaseSteps(AcceptedSpec, callId, "return") :
        \A m \in GroupSteps(AcceptedSpec, callId) : m <= k

MinOf(S) == CHOOSE k \in S : \A m \in S : k <= m

\* C14: in an accepted quicksort or mergesort document, a callId group with a base
\* step has no divide, recurse-left, recurse-right or combine step, begins with
\* enter, and its first base step comes before its first return step.
C14_BaseGroupIsPureBaseCase ==
  AcceptedRecursive =>
    \A callId \in CallIdsOf(AcceptedSpec) :
      IsBaseGroup(AcceptedSpec, callId) =>
        /\ \A phase \in {"divide", "recurse-left", "recurse-right", "combine"} :
             PhaseSteps(AcceptedSpec, callId, phase) = {}
        /\ RecursionAt(AcceptedSpec, MinOf(GroupSteps(AcceptedSpec, callId))).phase = "enter"
        /\ PhaseSteps(AcceptedSpec, callId, "return") # {}
        /\ MinOf(PhaseSteps(AcceptedSpec, callId, "base"))
             < MinOf(PhaseSteps(AcceptedSpec, callId, "return"))

\* An accepted document with a base-case call that tells a phase twice, next to a
\* call that divides.
C14_Witness ==
  /\ AcceptedRecursive
  /\ \E callId \in CallIdsOf(AcceptedSpec) :
       /\ IsBaseGroup(AcceptedSpec, callId)
       /\ Cardinality(GroupSteps(AcceptedSpec, callId)) > 3
  /\ \E callId \in CallIdsOf(AcceptedSpec) : ~IsBaseGroup(AcceptedSpec, callId)

DepthJumpMessage == "Recursion depth jump between adjacent steps must be -1, 0, or +1."

\* A document of a recursive algorithm with depth 1 at a step and depth 5 at the next.
JumpsFromOneToFive(spec) ==
  /\ spec.algorithm \in {"quicksort", "mergesort"}
  /\ \E k \in 1..(Len(spec.steps) - 1) :
       /\ Has(spec.steps[k].state.recursion)
       /\ Has(spec.steps[k + 1].state.recursion)
       /\ RecursionAt(spec, k).depth = 1
       /\ RecursionAt(spec, k + 1).depth = 5

DepthChangeAllowed(previous, current) ==
  LET depthDelta == current.depth - previous.depth IN
  /\ depthDelta \in {-1, 0, 1}
  /\ depthDelta = 1 => /\ previous.phase \in {"recurse-left", "recurse-right"}
                       /\ current.phase = "enter"
  /\ depthDelta = -1 => previous.phase = "return"

\* C15: in an accepted quicksort or mergesort document the depth of adjacent steps
\* k, k+1 changes by -1, 0 or +1, by +1 only from a recurse-left or recurse-right
\* step to an enter step, by -1 only from a return step; and a document with depth
\* 1 at a step and depth 5 at the next is rejected with the depth-jump issue.
C15_DepthChangesByOneAtCallBoundaries ==
  /\ AcceptedRecursive =>
       \A k \in 1..(Len(AcceptedSpec.steps) - 1) :
         /\ Has(AcceptedSpec.steps[k].state.recursion)
         /\ Has(AcceptedSpec.steps[k + 1].state.recursion)
         /\ DepthChangeAllowed(RecursionAt(AcceptedSpec, k), RecursionAt(AcceptedSpec, k + 1))
  /\ (Has(verdict) /\ JumpsFromOneToFive(Get(probe))) =>
       /\ Rejected
       /\ Includes(DetailsOf(Get(Get(verdict).error)), DepthJumpMessage)

\* An accepted document whose depth goes up and comes down again.
C15_Witness ==
  /\ AcceptedRecursive
  /\ \E k, m \in 1..(Len(AcceptedSpec.steps) - 1) :
       /\ RecursionAt(AcceptedSpec, k + 1).depth = RecursionAt(AcceptedSpec, k).depth + 1
       /\ RecursionAt(AcceptedSpec, m + 1).depth = RecursionAt(AcceptedSpec, m).depth - 1

\* The rejected document of the example: depth 1, then depth 5.
C15_JumpWitness == Rejected /\ JumpsFromOneToFive(Get(probe))

\* C16: in an accepted quicksort or mergesort document the first step is at depth
\* 0 with phase enter and the last step is at depth 0 with phase return; a document
\* of one step is never accepted.
C16_StartsAndEndsAtRootCall ==
  AcceptedRecursive =>
    LET steps == AcceptedSpec.steps IN
    /\ Len(steps) > 1
    /\ Has(steps[1].state.recursion)
    /\ RecursionAt(AcceptedSpec, 1).depth = 0
    /\ RecursionAt(AcceptedSpec, 1).phase = "enter"
    /\ Has(steps[Len(steps)].state.recursion)
    /\ RecursionAt(AcceptedSpec, Len(steps)).depth = 0
    /\ RecursionAt(AcceptedSpec, Len(steps)).phase = "return"

\* The shortest accepted recursive document: enter, base, return.
C16_Witness == AcceptedRecursive /\ Len(AcceptedSpec.steps) = 3

\* C17 as stated: in an accepted document of any algorithm, a step with both
\* state.recursion and state.stack has recursion.depth = stack.length - 1.
C17_DepthIsStackLengthMinusOne ==
  Accepted =>
    \A k \in 1..Len(AcceptedSpec.steps) :
      (Has(AcceptedSpec.steps[k].state.recursion) /\ Has(AcceptedSpec.steps[k].state.stack))
        => RecursionAt(AcceptedSpec, k).depth = Len(Get(AcceptedSpec.steps[k].state.stack)) - 1

\* C18: in an accepted quicksort document every divide step carries
\* state.partition, in an accepted mergesort document every combine step carries
\* state.merge, and an accepted document of either has a StackView component and,
\* on every step, a non-empty state.stack and a state.recursion.
C18_RecursiveStepsCarryTheirParts ==
  AcceptedRecursive =>
    /\ \E c \in 1..Len(AcceptedSpec.scene.components) :
         AcceptedSpec.scene.components[c].type = "StackView"
    /\ \A k \in 1..Len(AcceptedSpec.steps) :
         LET state == AcceptedSpec.steps[k].state IN
         /\ Has(state.stack)
         /\ Len(Get(state.stack)) > 0
         /\ Has(state.recursion)
         /\ (AcceptedSpec.algorithm = "quicksort" /\ Get(state.recursion).phase = "divide")
              => Has(state.partition)
         /\ (AcceptedSpec.algorithm = "mergesort" /\ Get(state.recursion).phase = "combine")
              => Has(state.merge)

\* An accepted mergesort document with a combine step.
C18_Witness ==
  /\ Accepted
  /\ AcceptedSpec.algorithm = "mergesort"
  /\ \E k \in 1..Len(AcceptedSpec.steps) :
       /\ Has(AcceptedSpec.steps[k].state.recursion)
       /\ RecursionAt(AcceptedSpec, k).phase = "combine"


(***************************************************************************)
(* The deterministic quicksort tracer on its own: buildDeterministic-      *)
(* FallbackSpec over every small array and over the array of the example.  *)
(***************************************************************************)
MaxTraceLen == 4

\* The values traced arrays are made of: enough for every order of three values
\* and for repeated values.
TraceValues == {1, 2, 3}

ExampleArray == <<9, 3, 7, 1, 5>>

TraceArrays ==
  UNION {[1..n -> TraceValues] : n \in 1..MaxTraceLen} \cup {ExampleArray}

TracerInit ==
  /\ normalizedInput \in {[algorithm |-> "quicksort", array |-> arr] : arr \in TraceArrays}
  /\ pc = "idle"
  /\ attempt = 0
  /\ candidateSpec = Absent
  /\ lastValidationError = Absent
  /\ request = Absent
  /\ result = Absent
  /\ thrown = Absent
  /\ genCalls = 0
  /\ verdicts = <<>>
  /\ outstanding = 0
  /\ fallbackTried = FALSE
  /\ probe = Absent
  /\ verdict = Absent
  /\ runs = <<>>
  /\ activations = <<>>

\* A caller asks for the deterministic walkthrough of the input.
BuildFallback ==
  /\ pc = "idle"
  /\ ~Has(result)
  /\ \E fallbackSpec \in {buildDeterministicFallbackSpec(normalizedInput)} :
       /\ result' = fallbackSpec
       /\ normalizedInput' = InputAfterFallback(normalizedInput, fallbackSpec)
  /\ UNCHANGED <<pc, attempt, candidateSpec, lastValidationError,
                 request, thrown, genCalls, verdicts, outstanding, fallbackTried,
                 probe, verdict, runs, activations>>

TracerNext == BuildFallback

SpecTracer == TracerInit /\ [][TracerNext]_vars

\* The walkthrough the tracer returned, in the states where it has.
Traced == Has(result)

TracedSpec == Get(result)

TracedSteps == Get(result).steps

IsAscending(values) == \A k \in 1..(Len(values) - 1) : values[k] <= values[k + 1]

Occurrences(values, v) == Cardinality({k \in 1..Len(values) : values[k] = v})

\* sorted is values in ascending order.
IsSortOf(sorted, values) ==
  /\ Len(sorted) = Len(values)
  /\ IsAscending(sorted)
  /\ \A v \in Range(values) \cup Range(sorted) :
       Occurrences(sorted, v) = Occurrences(values, v)

IsRootCallStep(step, phase) ==
  /\ Has(step.state.recursion)
  /\ Get(step.state.recursion).callId = "q0"
  /\ ~Has(Get(step.state.recursion).parentCallId)
  /\ Get(step.state.recursion).depth = 0
  /\ Get(step.state.recursion).phase = phase

\* C19: for every input array, the last step the tracer emits has state.array
\* equal to the input sorted ascending (<<1, 3, 5, 7, 9>> for <<9, 3, 7, 1, 5>>),
\* the first step is the root call at depth 0 with phase enter and the last step
\* is the root call at depth 0 with phase return.
C19_TracerSortsFromRootEnterToRootReturn ==
  Traced =>
    /\ Len(TracedSteps) > 0
    /\ IsSortOf(TracedSteps[Len(TracedSteps)].state.array, normalizedInput.array)
    /\ normalizedInput.array = ExampleArray =>
         TracedSteps[Len(TracedSteps)].state.array = <<1, 3, 5, 7, 9>>
    /\ IsRootCallStep(TracedSteps[1], "enter")
    /\ IsRootCallStep(TracedSteps[Len(TracedSteps)], "return")

\* The walkthrough of the example array.
C19_Witness ==
  /\ Traced
  /\ normalizedInput.array = ExampleArray
  /\ TracedSteps[1].state.array = ExampleArray
  /\ TracedSteps[Len(TracedSteps)].state.array # ExampleArray

\* The lo and hi of the call a step belongs to, read from recursion.args.
CallBounds(step) ==
  LET n == Len(step.state.array)
  IN CHOOSE b \in ((-1)..n) \X ((-1)..n) :
       Get(step.state.recursion).args = "lo=" \o ToString(b[1]) \o " hi=" \o ToString(b[2])

\* The phases of the steps of one call, in timeline order.
PhasesOfCall(steps, callId) ==
  LET ofCall(step) == Get(step.state.recursion).callId = callId
      kept == SelectSeq(steps, ofCall)
  IN [k \in 1..Len(kept) |-> Get(kept[k].state.recursion).phase]

\* The recursion rules on a timeline: depth against stack, depth changes, the
\* phases of every call, partition on divide steps.
KeepsLifecycleRules(steps) ==
  /\ \A k \in 1..Len(steps) :
       /\ Has(steps[k].state.recursion)
       /\ Has(steps[k].state.stack)
       /\ Get(steps[k].state.recursion).depth = Len(Get(steps[k].state.stack)) - 1
       /\ Get(steps[k].state.recursion).phase = "divide" => Has(steps[k].state.partition)
  /\ \A k \in 1..(Len(steps) - 1) :
       DepthChangeAllowed(Get(steps[k].state.recursion), Get(steps[k + 1].state.recursion))
  /\ \A k \in 1..Len(steps) :
       PhasesOfCall(steps, Get(steps[k].state.recursion).callId)
         \in {<<"enter", "base", "return">>,
              <<"enter", "divide", "recurse-left", "recurse-right", "return">>}

PointerNames(step) ==
  IF Has(step.state.pointers)
  THEN {Get(step.state.pointers)[k].name : k \in 1..Len(Get(step.state.pointers))}
  ELSE {}

SubRangeEmptyOrOutOfBounds(step) ==
  LET n == Len(step.state.array)
      lo == CallBounds(step)[1]
      hi == CallBounds(step)[2]
  IN lo > hi \/ lo < 0 \/ hi < 0 \/ lo >= n \/ hi >= n

\* What the tracer leaves out: the range of a call whose sub-range is empty or out
\* of bounds, and each of the pointers lo and hi whose own index is outside the
\* array; what is inside the array is written down.
OmitsWhatIsOutOfBounds(step) ==
  LET n == Len(step.state.array)
      lo == CallBounds(step)[1]
      hi == CallBounds(step)[2]
  IN /\ step.state.range = (IF SubRangeEmptyOrOutOfBounds(step) THEN Absent
                            ELSE Some([l |-> Num(lo), r |-> Num(hi)]))
     /\ "lo" \in PointerNames(step) <=> (0 <= lo /\ lo < n)
     /\ "hi" \in PointerNames(step) <=> (0 <= hi /\ hi < n)
     /\ "pivot" \in PointerNames(step) <=> Get(step.state.recursion).phase = "divide"

\* C20 as stated: the tracer's steps keep the recursion rules of the validator,
\* every range, pointer, pivotIndex and event index they carry is within the
\* array, and a step of a call whose sub-range is empty or out of bounds carries
\* neither range nor pointers.
C20_TracerOmitsRangeAndPointers ==
  Traced =>
    /\ KeepsLifecycleRules(TracedSteps)
    /\ recursionRefine(TracedSpec) = <<>>
    /\ \A k \in 1..Len(TracedSteps) :
         /\ StepIndicesInBounds(TracedSteps[k])
         /\ SubRangeEmptyOrOutOfBounds(TracedSteps[k]) =>
              /\ ~Has(TracedSteps[k].state.range)
              /\ ~Has(TracedSteps[k].state.pointers)

\* C20, amended: the tracer's steps keep the recursion rules of the validator
\* (depth = stack.length - 1, depth changes and their phases, the phases of every
\* call in order, partition on every divide step), every range, pointer,
\* pivotIndex and event index they carry is within the array, the range is left
\* out when the call's sub-range is empty or out of bounds, and each of the
\* pointers lo and hi is left out when its own index is outside the array.
C20_TracerKeepsLifecycleAndBounds ==
  Traced =>
    /\ KeepsLifecycleRules(TracedSteps)
    /\ recursionRefine(TracedSpec) = <<>>
    /\ \A k \in 1..Len(TracedSteps) :
         /\ StepIndicesInBounds(TracedSteps[k])
         /\ OmitsWhatIsOutOfBounds(TracedSteps[k])

\* A walkthrough with a call on an empty sub-range whose step has no range and
\* still a pointer, and a call on one past the end of the array.
C20_Witness ==
  /\ Traced
  /\ \E k \in 1..Len(TracedSteps) :
       /\ SubRangeEmptyOrOutOfBounds(TracedSteps[k])
       /\ ~Has(TracedSteps[k].state.range)
       /\ Has(TracedSteps[k].state.pointers)
  /\ \E k \in 1..Len(TracedSteps) :
       CallBounds(TracedSteps[k])[1] = Len(TracedSteps[k].state.array)
  /\ \E k \in 1..Len(TracedSteps) :
       Get(TracedSteps[k].state.recursion).phase = "divide"

\* The operations partitionLomuto performs on values[lo..hi], in program order:
\* the comparison of line 623 and the swap of lines 624-627 inside the loop, then
\* the swap of line 632.
RECURSIVE LomutoOperations(_, _, _, _, _)
LomutoOperations(values, hi, pivotValue, storeIndex, scanIndex) ==
  IF scanIndex >= hi
  THEN <<[type |-> "swap", i |-> storeIndex, j |-> hi]>>
  ELSE <<[type |-> "compare", i |-> scanIndex, j |-> hi]>>
       \o (IF values[scanIndex + 1] <= pivotValue
           THEN <<[type |-> "swap", i |-> storeIndex, j |-> scanIndex]>>
                \o LomutoOperations(Swap(values, storeIndex, scanIndex), hi, pivotValue,
                                    storeIndex + 1, scanIndex + 1)
           ELSE LomutoOperations(values, hi, pivotValue, storeIndex, scanIndex + 1))

PartitionOperations(values, lo, hi) ==
  LomutoOperations(values, hi, values[hi + 1], lo, lo)

\* An event of a step tells an operation: the same kind, on the same two indices.
EventTells(event, operation) ==
  /\ event.type = operation.type
  /\ {event.i, event.j} = {Num(operation.i), Num(operation.j)}

\* The events tell operations of the list, in the order of the list.
RECURSIVE EventsFollow(_, _)
EventsFollow(events, operations) ==
  IF events = <<>> THEN TRUE
  ELSE IF operations = <<>> THEN FALSE
  ELSE IF EventTells(Head(events), Head(operations))
  THEN EventsFollow(Tail(events), Tail(operations))
  ELSE EventsFollow(events, Tail(operations))

DivideSteps(steps) ==
  {k \in 2..Len(steps) : Get(steps[k].state.recursion).phase = "divide"}

EventsOf(step) == IF Has(step.events) THEN Get(step.events) ELSE <<>>

\* C21 as stated: the events of every divide step the tracer emits are swap and
\* compare operations that the call's partitioning performed, in the order it
\* performed them.  The array the partitioning started from is the one recorded
\* by the call's enter step, which precedes the divide step.
C21_DivideEventsAreThePartitionOperations ==
  Traced =>
    \A k \in DivideSteps(TracedSteps) :
      EventsFollow(EventsOf(TracedSteps[k]),
                   PartitionOperations(TracedSteps[k - 1].state.array,
                                       CallBounds(TracedSteps[k])[1],
                                       CallBounds(TracedSteps[k])[2]))

\* C22: no step of generateValidatedSpec, the deterministic tracer included,
\* changes the caller's normalizedInput.array: it keeps its elements in their
\* order, the swaps of the tracer going to the array of the trace context.
C22_CallerArrayNeverMutated ==
  [][normalizedInput'.array = normalizedInput.array]_vars

\* A run that ended in the fallback for an array the tracer had to rearrange.
C22_Witness ==
  /\ pc = "returned"
  /\ fallbackTried
  /\ normalizedInput.array = <<2, 1>>
  /\ Get(result).steps[Len(Get(result).steps)].state.array = <<1, 2>>

\* The enter steps of a timeline, in emission order.
EnterSteps(steps) ==
  LET isEnter(step) == Get(step.state.recursion).phase = "enter"
  IN SelectSeq(steps, isEnter)

\* What identifies the invocation a step was emitted by.
InvocationOf(step) ==
  [args |-> Get(step.state.recursion).args,
   depth |-> Get(step.state.recursion).depth,
   parentCallId |-> Get(step.state.recursion).parentCallId,
   stack |-> step.state.stack]

\* C23: within one tracer invocation the k-th call entered has callId q(k-1), so
\* no two calls share a callId; every step carries the callId of a call entered
\* before it, and the steps of one callId are those of one invocation (the same
\* arguments, depth, parent and stack); the k-th step emitted has id s(k-1).
C23_CallIdsAndStepIdsCountUp ==
  Traced =>
    /\ \A k \in 1..Len(TracedSteps) : TracedSteps[k].id = "s" \o ToString(k - 1)
    /\ \A k \in 1..Len(EnterSteps(TracedSteps)) :
         Get(EnterSteps(TracedSteps)[k].state.recursion).callId = "q" \o ToString(k - 1)
    /\ \A k \in 1..Len(TracedSteps) :
         \E m \in 1..k :
           /\ Get(TracedSteps[m].state.recursion).phase = "enter"
           /\ Get(TracedSteps[m].state.recursion).callId
                = Get(TracedSteps[k].state.recursion).callId
           /\ InvocationOf(TracedSteps[m]) = InvocationOf(TracedSteps[k])

\* A walkthrough of five calls, the last entered after two others have returned.
C23_Witness ==
  /\ Traced
  /\ Len(EnterSteps(TracedSteps)) >= 5
  /\ \E k \in 1..Len(TracedSteps) : Get(TracedSteps[k].state.recursion).callId = "q4"


(***************************************************************************)
(* Two runs of generateValidatedSpec at once.  A run gives way to the      *)
(* other only where it awaits requestModelChat; candidateSpec,             *)
(* lastValidationError and attempt are variables of the activation.        *)
(***************************************************************************)
Runs == {1, 2}

\* Two runs whose variables are one set.
FrameShared(run) == 1

\* Lines 912-935: each call of the function has its own candidateSpec,
\* lastValidationError and attempt.
FrameOf(run) == run

ConcurrentInputs ==
  <<[algorithm |-> "quicksort", array |-> <<2, 1>>],
    [algorithm |-> "mergesort", array |-> <<1, 2>>],
    [algorithm |-> "linear-search", array |-> <<1, 2>>]>>

\* What requestModelChat may resolve to in these runs: a text that is not JSON,
\* and a walkthrough of the algorithm asked for.
ConcurrentTexts(input) ==
  {Text("none", Absent),
   Text("none", Some(GoodDoc(input.algorithm, input.array)))}

InitialFrame == [attempt |-> 0, candidateSpec |-> Absent, lastValidationError |-> Absent]

InitialRun(input) ==
  [input |-> input, pc |-> "start", calls |-> 0, responses |-> <<>>,
   result |-> Absent, thrown |-> Absent]

\* Lines 924-935: the awaited text is assigned to candidateSpec; after the first
\* await lastValidationError and attempt are initialised, after a later one the
\* loop goes to its next iteration.
FrameOnArrival(frame, position, text) ==
  IF position = "awaitInitial"
  THEN [attempt |-> 0, candidateSpec |-> Some(text), lastValidationError |-> Absent]
  ELSE [frame EXCEPT !.attempt = frame.attempt + 1, !.candidateSpec = Some(text)]

\* Where a run is after a stretch of code: its position, its variables, what it
\* returned or threw, and the generation calls it issued on the way.
Settled(position, frame, returned, raised, issued) ==
  [pc |-> position, frame |-> frame, result |-> returned, thrown |-> raised,
   issued |-> issued]

\* Lines 970-996, from the validated fallback.
AfterLoop(input, frame, fallback) ==
  IF Has(fallback)
  THEN Settled("returned", frame, fallback, Absent, 0)
  ELSE Settled("threw", frame, Absent,
               Some(FinalError(input, Get(frame.candidateSpec), frame.lastValidationError)),
               0)

\* Lines 936-966, from the verdict on the candidate.
AfterVerdict(input, frame, outcome) ==
  IF outcome.ok
  THEN Settled("returned", frame, outcome.spec, Absent, 0)
  ELSE IF RepairBudgetLeft(frame.attempt)
  THEN Settled("awaitRepair", [frame EXCEPT !.lastValidationError = outcome.error],
               Absent, Absent, 1)
  ELSE AfterLoop(input, [frame EXCEPT !.lastValidationError = outcome.error],
                 ValidatedFallback(input))

\* What a run does from the arrival of a candidate to its next await or its end.
Resume(input, frame) ==
  AfterVerdict(input, frame, ValidateCandidate(Get(frame.candidateSpec), input))

\* The run issues its first generation call and suspends.
RunRequestsInitial(run) ==
  /\ runs[run].pc = "start"
  /\ runs' = [runs EXCEPT ![run].pc = "awaitInitial", ![run].calls = 1]
  /\ UNCHANGED <<orchestratorVars, probe, verdict, activations>>

\* requestModelChat rejects: the run ends with the upstream error.
RunGenerationFails(run) ==
  /\ runs[run].pc \in {"awaitInitial", "awaitRepair"}
  /\ runs' = [runs EXCEPT ![run].pc = "threw",
                          ![run].responses = Append(@, Absent),
                          ![run].thrown = Some(UpstreamError)]
  /\ UNCHANGED <<orchestratorVars, probe, verdict, activations>>

\* A candidate arrives: the run goes on to its next await or to its end.
RunCandidateArrives(run, text) ==
  /\ runs[run].pc \in {"awaitInitial", "awaitRepair"}
  /\ \E next \in {Resume(runs[run].input,
                         FrameOnArrival(activations[FrameOf(run)], runs[run].pc, text))} :
       /\ activations' = [activations EXCEPT ![FrameOf(run)] = next.frame]
       /\ runs' = [runs EXCEPT ![run].pc = next.pc,
                               ![run].calls = @ + next.issued,
                               ![run].responses = Append(@, Some(text)),
                               ![run].result = next.result,
                               ![run].thrown = next.thrown]
  /\ UNCHANGED <<orchestratorVars, probe, verdict>>

ConcurrentInit ==
  /\ normalizedInput = [algorithm |-> "quicksort", array |-> <<2, 1>>]
  /\ pc = "idle"
  /\ attempt = 0
  /\ candidateSpec = Absent
  /\ lastValidationError = Absent
  /\ request = Absent
  /\ result = Absent
  /\ thrown = Absent
  /\ genCalls = 0
  /\ verdicts = <<>>
  /\ outstanding = 0
  /\ fallbackTried = FALSE
  /\ probe = Absent
  /\ verdict = Absent
  /\ runs \in {[run \in Runs |-> InitialRun(ConcurrentInputs[pair[run]])] :
                 pair \in {f \in [Runs -> DOMAIN ConcurrentInputs] : f[1] < f[2]}}
  /\ activations = [frame \in {FrameOf(run) : run \in Runs} |-> InitialFrame]

ConcurrentNext ==
  \E run \in Runs :
    \/ RunRequestsInitial(run)
    \/ RunGenerationFails(run)
    \/ \E text \in ConcurrentTexts(runs[run].input) : RunCandidateArrives(run, text)

SpecConcurrent == ConcurrentInit /\ [][ConcurrentNext]_vars

\* What a run that has issued `calls` calls and is at `position` comes to when it
\* runs with no other run beside it and receives the responses.
AloneStep(input, calls, responses, next) ==
  [pc |-> next.pc, calls |-> calls + next.issued, result |-> next.result,
   thrown |-> next.thrown, frame |-> next.frame, rest |-> Tail(responses)]

RECURSIVE RunAloneFrom(_, _, _, _, _)
RunAloneFrom(input, position, frame, calls, responses) ==
  IF responses = <<>> \/ position \notin {"awaitInitial", "awaitRepair"}
  THEN [pc |-> position, calls |-> calls, result |-> Absent, thrown |-> Absent]
  ELSE IF ~Has(Head(responses))
  THEN [pc |-> "threw", calls |-> calls, result |-> Absent, thrown |-> Some(UpstreamError)]
  ELSE \* one stretch of the run, then the rest of it
    LET step == AloneStep(input, calls, responses,
                          Resume(input, FrameOnArrival(frame, position,
                                                       Get(Head(responses)))))
    IN IF step.pc = "awaitRepair"
       THEN RunAloneFrom(input, step.pc, step.frame, step.calls, step.rest)
       ELSE [pc |-> step.pc, calls |-> step.calls, result |-> step.result,
             thrown |-> step.thrown]

RunAlone(input, responses) ==
  RunAloneFrom(input, "awaitInitial", InitialFrame, 1, responses)

Observed(run) ==
  [pc |-> runs[run].pc, calls |-> runs[run].calls, result |-> runs[run].result,
   thrown |-> runs[run].thrown]

\* C24: of two runs for different requests interleaved at their awaits, each has
\* at every moment issued the generation calls and reached the position and the
\* outcome (the returned spec, tracer callIds and step ids included, or the raised
\* error) that it reaches alone on the responses it has received.
C24_RunsDoNotInterfere ==
  \A run \in Runs :
    runs[run].pc # "start" => Observed(run) = RunAlone(runs[run].input, runs[run].responses)

\* Both runs over: one returned the fallback after four rejected candidates, the
\* other returned its second candidate, their steps interleaved.
C24_Witness ==
  /\ \A run \in Runs : runs[run].pc = "returned"
  /\ \E run \in Runs :
       /\ runs[run].calls = 4
       /\ runs[run].input.algorithm = "quicksort"
       /\ runs[run].result = ValidatedFallback(runs[run].input)
  /\ \E run \in Runs : runs[run].calls = 2
  /\ activations[FrameOf(1)].attempt # activations[FrameOf(2)].attempt

(***************************************************************************)
(* The validator read again over what it returned.                         *)
(***************************************************************************)
\* What parseAndValidateArraysSpec makes of the serialized text of the
\* document it has just returned.
ReadAgain == parseAndValidateArraysSpec(JsonStringify(AcceptedSpec))

RaisedAfterBudget == BudgetSpent /\ pc = "threw"

\* The last candidate is a JSON document whose steps are an array of
\* MAX_TIMELINE_STEPS entries or more.
LastCandidateFillsTimeline ==
  /\ Has(Get(candidateSpec).body)
  /\ ~\E f \in Get(Get(candidateSpec).body).faults :
        f.path = "steps" /\ f.code = "invalid_type"
  /\ Len(Get(Get(candidateSpec).body).steps) >= 300

RaisedStepBudgetMessage ==
  Includes(DetailsOf(Get(thrown)), "Recursive detail exceeded step budget of 300 steps")

\* C26: once the budget is spent and no fallback has been returned, the error
\* raised carries the step-budget message exactly when the algorithm asked for is
\* quicksort or mergesort and the last candidate is a JSON document with 300
\* steps or more; otherwise the error raised is the last candidate's validation
\* error.
C26_StepBudgetMessageOrLastValidationError ==
  RaisedAfterBudget =>
    /\ RaisedStepBudgetMessage <=>
         (/\ normalizedInput.algorithm \in {"quicksort", "mergesort"}
          /\ LastCandidateFillsTimeline)
    /\ ~RaisedStepBudgetMessage => Get(thrown) = Get(LastOutcome.error)

\* A quicksort request whose fallback was rejected and whose last candidate fills
\* the timeline has raised the step-budget message.
C26_Witness ==
  /\ RaisedAfterBudget
  /\ normalizedInput.algorithm = "quicksort"
  /\ fallbackTried
  /\ LastCandidateFillsTimeline
  /\ RaisedStepBudgetMessage

\* A request outside quicksort and mergesort whose last candidate fills the
\* timeline has raised that candidate's validation error.
C26_WitnessOtherAlgorithm ==
  /\ RaisedAfterBudget
  /\ normalizedInput.algorithm = "binary-search"
  /\ LastCandidateFillsTimeline
  /\ Get(thrown) = Get(LastOutcome.error)

(***************************************************************************)
(* A fallback that its own validation rejects.                             *)
(***************************************************************************)
\* What the validator and the algorithm check make of the fallback built for
\* the request; undefined for a request that has no fallback.
FallbackVerdict ==
  ValidateCandidate(JsonStringify(Get(buildDeterministicFallbackSpec(normalizedInput))),
                    normalizedInput)

\* The budget is spent, a fallback was built, and it is rejected.
FallbackRejected ==
  /\ BudgetSpent
  /\ Has(buildDeterministicFallbackSpec(normalizedInput))
  /\ ~FallbackVerdict.ok

\* C27: when the fallback built after the last candidate fails validation or
\* the algorithm check, it is not returned, no generation call follows (as many
\* calls as candidates, none outstanding, none requested), and the error raised
\* is the last candidate's validation error or the step-budget error made from
\* the last candidate's step count, not the error the fallback was rejected with.
C27_RejectedFallbackIsSwallowed ==
  FallbackRejected =>
    /\ pc = "threw"
    /\ ~Has(result)
    /\ genCalls = Len(verdicts) /\ outstanding = 0 /\ ~Has(request)
    /\ \/ Get(thrown) = Get(LastOutcome.error)
       \/ Get(thrown) = StepBudgetError /\ LastCandidateFillsTimeline
    /\ Get(thrown) # Get(FallbackVerdict.error)

\* A quicksort request whose fallback has too long a title has raised the
\* validation error of its last candidate, a text that is not JSON.
C27_Witness ==
  /\ FallbackRejected
  /\ fallbackTried
  /\ pc = "threw"
  /\ Includes(DetailsOf(Get(FallbackVerdict.error)), "title")
  /\ DetailsOf(Get(thrown)) = "Model output could not be parsed as JSON."

(***************************************************************************)
(* The size of the tracer's walkthrough.                                   *)
(***************************************************************************)
\* The number of steps of a timeline in a phase.
PhaseCount(steps, phase) ==
  Cardinality({k \in 1..Len(steps) : Get(steps[k].state.recursion).phase = phase})

\* C28: for an input of n elements the tracer returns, with five steps for each
\* partitioning call and three for each base-case call, at most n - 1
\* partitioning calls, hence at most 8n - 5 steps, which for the largest legal
\* array (32 elements) stays within the 300 steps of a timeline; no step is deeper
\* than n - 1 or has a stack longer than n.
C28_TracerStaysWithinStepBudget ==
  Traced =>
    LET n == Len(normalizedInput.array)
        steps == TracedSteps
        partitioning == PhaseCount(steps, "divide")
        baseCases == PhaseCount(steps, "base")
    IN /\ Len(steps) = 5 * partitioning + 3 * baseCases
       /\ Cardinality(CallIdsOf(TracedSpec)) = partitioning + baseCases
       /\ partitioning <= n - 1
       /\ Len(steps) <= 8 * n - 5
       /\ 8 * MAX_ARRAY_LENGTH - 5 <= MAX_TIMELINE_STEPS
       /\ Len(steps) <= MAX_TIMELINE_STEPS
       /\ \A k \in 1..Len(steps) :
            /\ Get(steps[k].state.recursion).depth <= n - 1
            /\ Len(Get(steps[k].state.stack)) <= n

\* An array of four elements already in order: three partitioning calls, 27
\* steps, a call at depth 3 under a stack of four.
C28_Witness ==
  /\ Traced
  /\ Len(normalizedInput.array) = 4
  /\ Len(TracedSteps) = 27
  /\ PhaseCount(TracedSteps, "divide") = 3
  /\ \E k \in 1..Len(TracedSteps) :
       /\ Get(TracedSteps[k].state.recursion).depth = 3
       /\ Len(Get(TracedSteps[k].state.stack)) = 4

(***************************************************************************)
(* The partition a divide step shows.                                      *)
(***************************************************************************)
\* C29: in every divide step of the tracer, for a call on [lo, hi], pivotIndex
\* lies in [lo, hi], partition.less is the step's array from lo to pivotIndex - 1
\* and holds nothing above the pivot, partition.greater is the step's array from
\* pivotIndex + 1 to hi and holds only elements above the pivot, and the two
\* with the pivot make up the hi - lo + 1 elements of the range.
C29_DivideStepShowsThePartition ==
  Traced =>
    \A k \in 1..Len(TracedSteps) :
      Get(TracedSteps[k].state.recursion).phase = "divide" =>
        LET step == TracedSteps[k]
            array == step.state.array
            lo == CallBounds(step)[1]
            hi == CallBounds(step)[2]
            partition == Get(step.state.partition)
            pivotIndex == partition.pivotIndex.whole
        IN /\ Has(step.state.partition)
           /\ ~partition.pivotIndex.half
           /\ lo <= pivotIndex /\ pivotIndex <= hi
           /\ partition.less = [j \in 1..(pivotIndex - lo) |-> array[lo + j]]
           /\ \A j \in 1..Len(partition.less) : partition.less[j] <= array[pivotIndex + 1]
           /\ partition.greater = [j \in 1..(hi - pivotIndex) |-> array[pivotIndex + 1 + j]]
           /\ \A j \in 1..Len(partition.greater) :
                partition.greater[j] > array[pivotIndex + 1]
           /\ Len(partition.less) + Len(partition.greater) + 1 = hi - lo + 1

\* The example array: its first divide step puts 5 at index 2 between <<3, 1>>
\* and <<9, 7>>.
C29_Witness ==
  /\ Traced
  /\ normalizedInput.array = ExampleArray
  /\ \E k \in 1..Len(TracedSteps) :
       /\ Get(TracedSteps[k].state.recursion).phase = "divide"
       /\ TracedSteps[k].state.partition =
            Some([pivotIndex |-> Num(2), less |-> <<3, 1>>, greater |-> <<9, 7>>])

(***************************************************************************)
(* The array a step records.                                               *)
(***************************************************************************)
IsPermutationOf(values, others) ==
  /\ Len(values) = Len(others)
  /\ \A v \in Range(values) \cup Range(others) :
       Occurrences(values, v) = Occurrences(others, v)

\* The working array when step k was emitted, from the array of the step before:
\* the input for the first step, the partitioned array for a divide step, and
\* for any other step the array as the step before left it.
ArrayAtEmission(steps, k, input) ==
  IF k = 1 THEN input
  ELSE IF Get(steps[k].state.recursion).phase = "divide"
  THEN partitionLomuto(steps[k - 1].state.array,
                       CallBounds(steps[k])[1], CallBounds(steps[k])[2]).values
  ELSE steps[k - 1].state.array

\* The steps emitted while a call is active: from its enter step to its return
\* step.
StepsDuringCall(steps, callId) ==
  LET own == {k \in 1..Len(steps) : Get(steps[k].state.recursion).callId = callId}
  IN {k \in 1..Len(steps) : (\E j \in own : j <= k) /\ (\E j \in own : k <= j)}

\* C30: every step of the tracer records the working array as it was when the
\* step was emitted, whatever was swapped afterwards: each recorded array is a
\* permutation of the input, and while a call on [lo, hi] is active the elements
\* outside [lo, hi] stay as they were when the call was entered.
C30_StepsRecordTheArrayAtEmission ==
  Traced =>
    /\ \A k \in 1..Len(TracedSteps) :
         /\ TracedSteps[k].state.array =
              ArrayAtEmission(TracedSteps, k, normalizedInput.array)
         /\ IsPermutationOf(TracedSteps[k].state.array, normalizedInput.array)
    /\ \A e \in 1..Len(TracedSteps) :
         Get(TracedSteps[e].state.recursion).phase = "enter" =>
           \A k \in StepsDuringCall(TracedSteps, Get(TracedSteps[e].state.recursion).callId) :
             \A j \in 1..Len(normalizedInput.array) :
               (j - 1 < CallBounds(TracedSteps[e])[1] \/ j - 1 > CallBounds(TracedSteps[e])[2])
                 => TracedSteps[k].state.array[j] = TracedSteps[e].state.array[j]

\* The example array: the first step records the input, the first divide step
\* the array after one partition, the last step the sorted array.
C30_Witness ==
  /\ Traced
  /\ normalizedInput.array = ExampleArray
  /\ TracedSteps[1].state.array = <<9, 3, 7, 1, 5>>
  /\ TracedSteps[2].state.array = <<3, 1, 5, 9, 7>>
  /\ TracedSteps[Len(TracedSteps)].state.array = <<1, 3, 5, 7, 9>>


====
